---- MODULE Spec2Model ----
(***************************************************************************)
(* A model of the hsnips compiler (src/src/parser.ts): the header grammar, *)
(* the body compiler parseSnippet, the file compiler parse, the execution  *)
(* of the assembled unit and the invocation of a compiled generator; and   *)
(* of the extension (src/src/extension.ts): the loader loadSnippets that   *)
(* compiles the files of the snippet directory, and expandSnippet.         *)
(*                                                                         *)
(* Strings are sequences of one-character strings, so that the scanner's   *)
(* tests (startsWith, includes, split, trim, the regular expressions) are  *)
(* computed character by character, as the code computes them.  The empty  *)
(* sequence stands for JavaScript's undefined wherever the code only tests *)
(* truthiness (match[1], match[3] || '', context || undefined).            *)
(***************************************************************************)
EXTENDS Integers, Sequences, FiniteSets, TLC

VARIABLES
    content,        \* the text handed to parse (parser.ts:93)
    pc,             \* where parse is: "top", "body", "executing", "done", "invoked"
                    \* ("idle": no call of parse is running)
    lines,          \* the shared line stream (parser.ts:94)
    snippetInfos,   \* parse: the IHSnippetInfo collected so far (parser.ts:96)
    script,         \* parse: the preamble lines (parser.ts:97)
    isCode,         \* parse: inside a global block (parser.ts:98)
    priority,       \* parse: the pending priority (parser.ts:99)
    context,        \* parse: the pending context expression (parser.ts:100)
    snip,           \* the running parseSnippet call: header, script, isCode
    outcome,        \* how parse ended: "none", "returned", "threw"
    error,          \* the kind of the error parse threw ("" when none)
    result,         \* the HSnippet sequence parse returned
    out,            \* what the invoked generator returned
    hist,           \* history: the lines parse read at top level, in order
    globalNames,    \* the names user scripts have put on Node's global object
    dir,            \* the snippet directory: file name -> text
    SNIPPETS_BY_LANGUAGE,   \* extension.ts:12, language -> HSnippet list
    loadpc,         \* where loadSnippets is: "files", "parsing"; or "loaded" (it
                    \* is not running, and its last run went through the loop
                    \* to its end), "idle" (it is not running otherwise),
                    \* "deactivated" (the extension was deactivated)
    hsnipFiles,     \* loadSnippets: the files the loop has still to visit
    file,           \* loadSnippets: the file of the running iteration
    loadSnippetsTimeout,    \* extension.ts:17, the handle of the timer armed last
                            \* (NoTimeout: undefined)
    timers,         \* the retry timers that are armed and have not fired
    attempts,       \* history: per triggering event, how each attempt of its
                    \* chain went, in order
    notifications,  \* the error messages the running or last load has shown
    parsed,         \* history: the parse calls the running or last load finished
    loads,          \* how many times loadSnippets was entered
    insertingSnippet,   \* extension.ts:15
    SNIPPET_STACK,      \* extension.ts:13, the expansions whose placeholders are live
    expansions      \* the calls of expandSnippet so far: who made each, and where
                    \* it is ("edit": awaiting the delete edit; "insert":
                    \* awaiting insertSnippet; "ended"; "rejected")

\* The variables of parse and of the generators
parseVars == <<content, pc, lines, snippetInfos, script, isCode, priority, context,
               snip, outcome, error, result, out, hist>>

\* The variables of the loader
loadVars == <<dir, SNIPPETS_BY_LANGUAGE, loadpc, hsnipFiles, file, loadSnippetsTimeout,
              timers, attempts,
              notifications, parsed, loads>>

\* The variables of the expansion
expandVars == <<insertingSnippet, SNIPPET_STACK, expansions>>

vars == <<parseVars, globalNames, loadVars, expandVars>>

----------------------------------------------------------------------------
(* Strings *)

NL == "\n"
\* The backtick character (written out: the character itself cannot stand in a
\* string literal of the module).
BT == "backtick"

IsSpace(c) == c \in {" ", "\t", "\r", "\n"}

Min(S) == CHOOSE x \in S : \A y \in S : x <= y
Max(S) == CHOOSE x \in S : \A y \in S : x >= y

\* String.prototype.startsWith
StartsWith(s, p) == Len(s) >= Len(p) /\ SubSeq(s, 1, Len(p)) = p

\* String.prototype.endsWith
EndsWith(s, p) == Len(s) >= Len(p) /\ SubSeq(s, Len(s) - Len(p) + 1, Len(s)) = p

\* String.prototype.includes
Includes(s, p) == \E i \in 1..(Len(s) - Len(p) + 1) : SubSeq(s, i, i + Len(p) - 1) = p

\* String.prototype.trim
Trim(s) ==
    LET keep == {i \in 1..Len(s) : ~IsSpace(s[i])}
    IN  IF keep = {} THEN <<>> ELSE SubSeq(s, Min(keep), Max(keep))

\* String.prototype.substring(n): the text after the first n characters
Substring(s, n) == SubSeq(s, n + 1, Len(s))

RECURSIVE Flatten(_)
Flatten(ss) == IF ss = <<>> THEN <<>> ELSE Head(ss) \o Flatten(Tail(ss))

\* Array.prototype.join with the line break
RECURSIVE JoinLines(_)
JoinLines(ls) ==
    IF ls = <<>> THEN <<>>
    ELSE IF Len(ls) = 1 THEN ls[1]
    ELSE ls[1] \o <<NL>> \o JoinLines(Tail(ls))

\* content.split(/\r?\n/): the pieces between line breaks; a carriage return
\* right before a line break belongs to the separator.
RECURSIVE SplitLines(_)
SplitLines(s) ==
    LET brk == {i \in 1..Len(s) : s[i] = NL}
    IN  IF brk = {} THEN <<s>>
        ELSE LET i == Min(brk)
                 e == IF i > 1 /\ s[i - 1] = "\r" THEN i - 2 ELSE i - 1
             IN  <<SubSeq(s, 1, e)>> \o SplitLines(SubSeq(s, i + 1, Len(s)))

Digits == <<"0", "1", "2", "3", "4", "5", "6", "7", "8", "9">>
IsDigit(c) == \E d \in 1..Len(Digits) : Digits[d] = c
DigitVal(c) == (CHOOSE d \in 1..Len(Digits) : Digits[d] = c) - 1

RECURSIVE DecimalVal(_)
DecimalVal(s) ==
    IF s = <<>> THEN 0 ELSE DecimalVal(SubSeq(s, 1, Len(s) - 1)) * Len(Digits) + DigitVal(s[Len(s)])

\* String(n) of a natural number
RECURSIVE NumToString(_)
NumToString(n) ==
    IF n < Len(Digits) THEN <<Digits[n + 1]>>
    ELSE NumToString(n \div Len(Digits)) \o <<Digits[(n % Len(Digits)) + 1]>>

\* Number(s) || 0 of a trimmed string: the empty string and a run of digits
\* are numbers, any other text of the modelled alphabet is NaN, which is falsy.
NumberOrZero(s) ==
    IF \A i \in 1..Len(s) : IsDigit(s[i]) THEN DecimalVal(s) ELSE 0

----------------------------------------------------------------------------
(* Keywords and the delimiter *)

CODE_DELIMITER == <<BT, BT>>
KwSnippet == <<"s", "n", "i", "p", "p", "e", "t">>
KwEndSnippet == <<"e", "n", "d">> \o KwSnippet
KwGlobal == <<"g", "l", "o", "b", "a", "l">>
KwEndGlobal == <<"e", "n", "d">> \o KwGlobal
KwPriority == <<"p", "r", "i", "o", "r", "i", "t", "y", " ">>
KwContext == <<"c", "o", "n", "t", "e", "x", "t", " ">>
KwComment == <<"#">>
FlagChars == {"A", "M", "i", "w", "b"}

\* Mutant of DelimiterAt: the lookahead is left out, the first two backticks
\* of a run match.
DelimiterAtFirstPair(line) ==
    LET hits == {i \in 1..(Len(line) - 1) : line[i] = BT /\ line[i + 1] = BT}
    IN  IF hits = {} THEN 0 ELSE Min(hits)

\* CODE_DELIMITER_REGEX, two backticks and a negative lookahead for a third:
\* the first place where two backticks are
\* not followed by a third; 0 when there is none.
DelimiterAt(line) ==
    LET hits == {i \in 1..(Len(line) - 1) :
                    /\ line[i] = BT
                    /\ line[i + 1] = BT
                    /\ (i + 2 > Len(line) \/ line[i + 2] # BT)}
    IN  IF hits = {} THEN 0 ELSE Min(hits)

\* Mutant of SplitRest: the rest starts at the delimiter, not after it.
SplitRestKeepsDelimiter(line) ==
    IF DelimiterAt(line) = 0 THEN <<>>
    ELSE SubSeq(line, DelimiterAt(line), Len(line))

\* let [first, ...rest] = line.split(CODE_DELIMITER_REGEX): first
SplitFirst(line) ==
    IF DelimiterAt(line) = 0 THEN line ELSE SubSeq(line, 1, DelimiterAt(line) - 1)

\* rest.join(CODE_DELIMITER): every separator the regex matches is the
\* delimiter itself, so the joined rest is the text after the first match.
SplitRest(line) ==
    IF DelimiterAt(line) = 0 THEN <<>>
    ELSE SubSeq(line, DelimiterAt(line) + 2, Len(line))

----------------------------------------------------------------------------
(* Header grammar *)

\* The first index >= from where s holds c; 0 when there is none.
IndexFrom(s, c, from) ==
    LET at == {i \in from..Len(s) : s[i] = c}
    IN  IF at = {} THEN 0 ELSE Min(at)

\* \S+ from from: the end of the longest run of characters that are not white
\* space (from - 1 when the run is empty)
NonSpaceRunEnd(s, from) ==
    LET stop == {i \in from..Len(s) : IsSpace(s[i])}
    IN  IF stop = {} THEN Len(s) ELSE Min(stop) - 1

\* [AMiwb]* from from: the end of the longest run of flag characters
FlagRunEnd(s, from) ==
    LET stop == {i \in from..Len(s) : s[i] \notin FlagChars}
    IN  IF stop = {} THEN Len(s) ELSE Min(stop) - 1

\* HEADER_REGEXP.exec(header): the keyword, an optional blank, then three
\* optional groups, each tried greedily and skipped when it does not match.
\* Nothing after a group is mandatory, so the first greedy choice of every
\* group stands.  g1..g4 are the captures (<<>> when the group took no part).
HEADER_REGEXP(header) ==
    IF ~StartsWith(header, KwSnippet) THEN [ok |-> FALSE, g1 |-> <<>>, g2 |-> <<>>, g3 |-> <<>>, g4 |-> <<>>]
    ELSE
    LET n  == Len(header)
        p0 == Len(KwSnippet) + 1
        \* " ?"
        p1 == IF p0 <= n /\ header[p0] = " " THEN p0 + 1 ELSE p0
        \* a backtick, [^backtick]+, a backtick
        q1 == IF p1 <= n /\ header[p1] = BT THEN IndexFrom(header, BT, p1 + 1) ELSE 0
        alt1 == q1 >= p1 + 2
        \* \S+
        e2 == NonSpaceRunEnd(header, p1)
        alt2 == ~alt1 /\ e2 >= p1
        g1 == IF alt1 THEN SubSeq(header, p1 + 1, q1 - 1) ELSE <<>>
        g2 == IF alt2 THEN SubSeq(header, p1, e2) ELSE <<>>
        p2 == IF alt1 THEN q1 + 1 ELSE IF alt2 THEN e2 + 1 ELSE p1
        \* a blank, a double quote, [^"]+, a double quote
        q3 == IF p2 + 1 <= n /\ header[p2] = " " /\ header[p2 + 1] = "\""
              THEN IndexFrom(header, "\"", p2 + 2) ELSE 0
        has3 == q3 >= p2 + 3
        g3 == IF has3 THEN SubSeq(header, p2 + 2, q3 - 1) ELSE <<>>
        p3 == IF has3 THEN q3 + 1 ELSE p2
        \* a blank, [AMiwb]*
        has4 == p3 <= n /\ header[p3] = " "
        g4 == IF has4 THEN SubSeq(header, p3 + 1, FlagRunEnd(header, p3 + 1)) ELSE <<>>
    IN  [ok |-> TRUE, g1 |-> g1, g2 |-> g2, g3 |-> g3, g4 |-> g4]

\* The trigger of a header: a RegExp compiled from the pattern group, with the
\* line-end anchor appended unless the pattern ends with it, or else the
\* literal group (undefined, here the empty literal, when that is absent too).
HeaderTrigger(m) ==
    IF m.g1 # <<>>
    THEN [kind |-> "regexp", source |-> IF EndsWith(m.g1, <<"$">>) THEN m.g1 ELSE m.g1 \o <<"$">>]
    ELSE [kind |-> "literal", source |-> m.g2]

\* parseSnippetHeader(header); ok is FALSE where the code throws
\* 'Invalid snippet header'.  priority is set by parse.
parseSnippetHeader(header) ==
    LET m == HEADER_REGEXP(header)
    IN  [ok |-> m.ok,
         trigger |-> HeaderTrigger(m),
         description |-> m.g3,
         flags |-> m.g4,
         priority |-> 0]

----------------------------------------------------------------------------
(* Body compiler *)

\* escapeString: every backslash doubled, then every double quote escaped.
RECURSIVE ReplaceChar(_, _, _)
ReplaceChar(s, c, by) ==
    IF s = <<>> THEN <<>>
    ELSE (IF Head(s) = c THEN by ELSE <<Head(s)>>) \o ReplaceChar(Tail(s), c, by)

\* Mutant of escapeString: the double quotes are escaped first, and the
\* backslashes, those just added too, are doubled after.
escapeStringQuotesFirst(string) ==
    ReplaceChar(ReplaceChar(string, "\"", <<"\\", "\"">>), "\\", <<"\\", "\\">>)

escapeString(string) ==
    ReplaceChar(ReplaceChar(string, "\\", <<"\\", "\\">>), "\"", <<"\\", "\"">>)

\* One statement of a generator's source.  op names the statement the code
\* pushes, arg is the text it embeds: the escaped literal of a text push, the
\* trimmed source of a script line.
Stmt(op, arg) == [op |-> op, arg |-> arg]

\* parser.ts:45-48
ScriptPrologue ==
    << Stmt("function", <<>>), Stmt("let rv", <<>>), Stmt("let _result", <<>>),
       Stmt("let _blockResults", <<>>) >>

\* parser.ts:82-85: the last statement is dropped, whatever it is, and the
\* return statement and the closing brace are appended.
ScriptEpilogue(s) ==
    SubSeq(s, 1, Len(s) - 1) \o << Stmt("return", <<>>), Stmt("}", <<>>) >>

\* No parseSnippet call is running.
NoSnip == [header |-> parseSnippetHeader(<<>>), script |-> <<>>, isCode |-> FALSE]

\* parser.ts:43-50: the state of parseSnippet before its loop
SnipStart(headerLine) ==
    [header |-> parseSnippetHeader(headerLine), script |-> ScriptPrologue, isCode |-> FALSE]

\* parser.ts:56-57: a script line without the delimiter
SnipCodeLine(sn, line) ==
    [sn EXCEPT !.script = Append(@, Stmt("code", Trim(line)))]

\* Mutant of SnipCodeClose: the block result is appended before the segment
\* that refers to it.
SnipCodeCloseResultFirst(sn, line) ==
    [sn EXCEPT !.script = @ \o << Stmt("code", Trim(SplitFirst(line))),
                                  Stmt("push blockResult", <<>>),
                                  Stmt("push block", <<>>) >>,
               !.isCode = FALSE]

\* parser.ts:59-64: a script line with the delimiter closes the block
SnipCodeClose(sn, line) ==
    [sn EXCEPT !.script = @ \o << Stmt("code", Trim(SplitFirst(line))),
                                  Stmt("push block", <<>>),
                                  Stmt("push blockResult", <<>>) >>,
               !.isCode = FALSE]

\* parser.ts:70-71: a text line without the delimiter
SnipTextLine(sn, line) ==
    [sn EXCEPT !.script = @ \o << Stmt("push text", escapeString(line)),
                                  Stmt("push newline", <<>>) >>]

\* Mutant of SnipTextOpen: the block accumulator is not reset when a block
\* opens (the statement emitted in its place does nothing).
SnipTextOpenNoReset(sn, line) ==
    [sn EXCEPT !.script = @ \o << Stmt("push text", escapeString(SplitFirst(line))),
                                  Stmt("code", <<>>) >>,
               !.isCode = TRUE]

\* parser.ts:73-77: a text line with the delimiter opens a block
SnipTextOpen(sn, line) ==
    [sn EXCEPT !.script = @ \o << Stmt("push text", escapeString(SplitFirst(line))),
                                  Stmt("reset rv", <<>>) >>,
               !.isCode = TRUE]

\* parser.ts:61 and 76: the rest of the line goes back to the head of the stream
Unshift(rest, stream) == <<rest>> \o stream

\* parser.ts:87 and 121-122: the IHSnippetInfo of a finished parseSnippet call,
\* with the pending priority and context attached
SnipInfo(sn, prio, ctx) ==
    [body |-> ScriptEpilogue(sn.script),
     header |-> [sn.header EXCEPT !.priority = prio],
     contextFilter |-> ctx]

----------------------------------------------------------------------------
(* The script fragments the model gives a meaning to.  The compiler hands   *)
(* every script line to the JavaScript engine unread; the model reads the   *)
(* fragments that its inputs are built from: nothing, a sum of digits, an   *)
(* assignment of such a sum to rv, a single name, a let declaration, an     *)
(* endless loop.  Any                                                       *)
(* other fragment is "unmodelled": the engine may reject the unit or accept *)
(* it, and what a generator holding one returns is left open.               *)

Letters ==
    {"a", "b", "c", "d", "e", "f", "g", "h", "i", "j", "k", "l", "m", "n", "o", "p",
     "q", "r", "s", "t", "u", "v", "w", "x", "y", "z", "_"}

KwLet == <<"l", "e", "t", " ">>
\* A statement that never ends
KwForever == <<"f", "o", "r", "(", ";", ";", ")", ";">>
KwRvAssign == <<"r", "v", "=">>

IsIdentifier(src) == src # <<>> /\ \A i \in 1..Len(src) : src[i] \in Letters

IsSum(src) ==
    /\ Len(src) % 2 = 1
    /\ \A i \in 1..Len(src) : IF i % 2 = 1 THEN IsDigit(src[i]) ELSE src[i] = "+"

RECURSIVE SumVal(_)
SumVal(src) ==
    IF Len(src) <= 1 THEN DigitVal(src[1])
    ELSE DigitVal(src[1]) + SumVal(SubSeq(src, 3, Len(src)))

CodeClass(src) ==
    IF src = <<>> THEN "empty"
    ELSE IF IsSum(src) THEN "expression"
    ELSE IF StartsWith(src, KwRvAssign) /\ IsSum(Substring(src, Len(KwRvAssign))) THEN "assign"
    ELSE IF IsIdentifier(src) THEN "identifier"
    ELSE IF StartsWith(src, KwLet) /\ IsIdentifier(Substring(src, Len(KwLet))) THEN "let"
    ELSE IF src = KwForever THEN "loop"
    ELSE IF src[1] = "#" THEN "syntax error"
    ELSE IF \E i \in 2..(Len(src) - 1) :
                /\ IsIdentifier(SubSeq(src, 1, i - 1))
                /\ src[i] = " "
                /\ \A j \in (i + 1)..Len(src) : src[j] \in Letters \/ IsDigit(src[j])
         THEN "syntax error"
    ELSE "unmodelled"

\* The names a generator's script may read: its five parameters, its own
\* variables, Node's global object, and what the preamble declares.
BuiltinNames ==
    { <<"t">>, <<"m">>, <<"w">>, <<"p", "a", "t", "h">>, <<"s", "n", "i", "p">>,
      <<"r", "v">>, KwGlobal }

PreambleNames(preamble) ==
    { Substring(Trim(preamble[i]), Len(KwLet)) :
        i \in {j \in 1..Len(preamble) : CodeClass(Trim(preamble[j])) = "let"} }

\* A double-quoted string literal's value: a backslash gives the character
\* after it.
RECURSIVE StringValue(_)
StringValue(lit) ==
    IF lit = <<>> THEN <<>>
    ELSE IF Head(lit) = "\\" /\ Len(lit) >= 2 THEN <<lit[2]>> \o StringValue(SubSeq(lit, 3, Len(lit)))
    ELSE <<Head(lit)>> \o StringValue(Tail(lit))

\* The text between the double quotes of a string literal is well formed:
\* read with its escapes, it holds no double quote of its own and does not
\* end in a backslash that would escape the closing quote.
RECURSIVE WellFormedLiteral(_)
WellFormedLiteral(lit) ==
    IF lit = <<>> THEN TRUE
    ELSE IF Head(lit) = "\\" THEN Len(lit) >= 2 /\ WellFormedLiteral(SubSeq(lit, 3, Len(lit)))
    ELSE Head(lit) # "\"" /\ WellFormedLiteral(Tail(lit))

TextSegment(text) == [kind |-> "text", text |-> text, block |-> 0]
BlockSegment(n) == [kind |-> "block", text |-> <<>>, block |-> n]

\* The state of a running generator: rv as String(rv) gives it, the two
\* arrays, and which of them are declared.
GenStart == [status |-> "running", rv |-> <<>>, result |-> <<>>, blockResults |-> <<>>,
             declared |-> {}]

\* One statement of a generator, executed.
GenStep(g, stmt, names) ==
    IF g.status # "running" THEN g
    ELSE IF stmt.op = "let rv" THEN [g EXCEPT !.declared = @ \cup {"rv"}]
    ELSE IF stmt.op = "let _result" THEN [g EXCEPT !.declared = @ \cup {"_result"}]
    ELSE IF stmt.op = "let _blockResults" THEN [g EXCEPT !.declared = @ \cup {"_blockResults"}]
    ELSE IF stmt.op = "code" THEN
        CASE CodeClass(stmt.arg) \in {"empty", "expression"} -> g
          [] CodeClass(stmt.arg) = "assign" ->
                [g EXCEPT !.rv = NumToString(SumVal(Substring(stmt.arg, Len(KwRvAssign))))]
          [] CodeClass(stmt.arg) = "identifier" ->
                IF stmt.arg \in names THEN g ELSE [g EXCEPT !.status = "threw"]
          [] OTHER -> [g EXCEPT !.status = "unmodelled"]
    ELSE IF stmt.op \in {"push text", "push newline"} THEN
        IF "_result" \notin g.declared THEN [g EXCEPT !.status = "threw"]
        ELSE [g EXCEPT !.result = Append(@, TextSegment(
                  IF stmt.op = "push newline" THEN <<NL>> ELSE StringValue(stmt.arg)))]
    ELSE IF stmt.op = "reset rv" THEN [g EXCEPT !.rv = <<>>]
    ELSE IF stmt.op = "push block" THEN
        IF {"_result", "_blockResults"} \subseteq g.declared
        THEN [g EXCEPT !.result = Append(@, BlockSegment(Len(g.blockResults)))]
        ELSE [g EXCEPT !.status = "threw"]
    ELSE IF stmt.op = "push blockResult" THEN
        IF "_blockResults" \in g.declared
        THEN [g EXCEPT !.blockResults = Append(@, g.rv)]
        ELSE [g EXCEPT !.status = "threw"]
    ELSE IF stmt.op = "return" THEN
        IF {"_result", "_blockResults"} \subseteq g.declared
        THEN [g EXCEPT !.status = "returned"]
        ELSE [g EXCEPT !.status = "threw"]
    ELSE g

RECURSIVE GenRun(_, _, _)
GenRun(g, stmts, names) ==
    IF stmts = <<>> THEN g ELSE GenRun(GenStep(g, Head(stmts), names), Tail(stmts), names)

\* generatorFunction(t, m, w, path, snip): what the call returns or throws
RunGenerator(body, names) ==
    LET g == GenRun(GenStart, body, names)
    IN  [status |-> g.status,
         result |-> IF g.status = "returned" THEN g.result ELSE <<>>,
         blockResults |-> IF g.status = "returned" THEN g.blockResults ELSE <<>>]

----------------------------------------------------------------------------
(* File compiler: assembly and execution of the unit *)

\* parser.ts:130-139: one element per IHSnippetInfo, in order; the context
\* filter is emitted when the info holds one.
UnitElements(infos) ==
    [i \in 1..Len(infos) |->
        [contextFilter |-> infos[i].contextFilter, generatorFunction |-> infos[i].body]]

\* The script lines of a generator's source
CodeFragments(body) ==
    { body[k].arg : k \in {j \in 1..Len(body) : body[j].op = "code"} }

\* The fragments that sit inside the functions of a unit: the context
\* expressions and the script lines of the generators.
InnerFragments(infos) ==
    { infos[i].contextFilter : i \in {j \in 1..Len(infos) : infos[j].contextFilter # <<>>} }
    \cup UNION { CodeFragments(infos[i].body) : i \in 1..Len(infos) }

\* The names the preamble may read without declaring them: the parameter of
\* the unit and Node's global object (parser.ts:159: the unit is the body of
\* new Function('require', ...), so it sees its parameter and the global
\* scope, and nothing of the extension's module).
UnitNames == { <<"r", "e", "q", "u", "i", "r", "e">>, KwGlobal }

\* The name the modelled assignment writes
NameRv == <<"r", "v">>

\* The preamble lines that assign to a name the preamble does not declare.
\* The unit is not strict code: the assignment creates the name on the
\* global object.
LeakAt(preamble) ==
    {i \in 1..Len(preamble) :
        CodeClass(Trim(preamble[i])) = "assign" /\ NameRv \notin PreambleNames(preamble)}

\* The preamble lines that read a name nothing defines when they run
UndefinedAt(preamble, globals) ==
    {i \in 1..Len(preamble) :
        /\ CodeClass(Trim(preamble[i])) = "identifier"
        /\ Trim(preamble[i]) \notin UnitNames \cup PreambleNames(preamble) \cup globals
                \cup (IF \E j \in LeakAt(preamble) : j < i THEN {NameRv} ELSE {})}

\* The preamble lines that never end
LoopAt(preamble) == {i \in 1..Len(preamble) : CodeClass(Trim(preamble[i])) = "loop"}

\* new Function('require', script)(safeRequire), parser.ts:159-160: the errors
\* the execution of a unit can end with ("none": it returns the array;
\* "hangs": it does not end), given the names on the global object.  A
\* redeclaration or a syntax error is found before anything runs, the first
\* in source order; when the preamble runs, a name it reads and nothing
\* defines throws, and an endless loop never ends, whichever comes first.
ExecErrors(preamble, infos, globals) ==
    LET pre == [i \in 1..Len(preamble) |-> Trim(preamble[i])]
        redeclared == {i \in 1..Len(pre) :
                          CodeClass(pre[i]) = "let" /\ \E j \in 1..(i - 1) : pre[j] = pre[i]}
        rejected == {i \in 1..Len(pre) : CodeClass(pre[i]) = "syntax error"}
        inner == {CodeClass(f) : f \in InnerFragments(infos)}
        open == \/ \E i \in 1..Len(pre) : CodeClass(pre[i]) = "unmodelled"
                \/ inner \cap {"unmodelled", "let"} # {}
        undefinedAt == UndefinedAt(preamble, globals)
        loopAt == LoopAt(preamble)
    IN  IF redeclared \cup rejected # {}
        THEN {IF Min(redeclared \cup rejected) \in redeclared THEN "redeclared" ELSE "other"}
        ELSE IF "syntax error" \in inner THEN {"other"}
        ELSE (IF open THEN {"other"} ELSE {})
             \cup {IF undefinedAt \cup loopAt = {} THEN "none"
                   ELSE IF Min(undefinedAt \cup loopAt) \in loopAt THEN "hangs"
                   ELSE "not defined"}

\* The names on the global object after the execution of a unit that ended
\* with e: an assignment that ran before the execution stopped has left its
\* name there, whether the unit then returned, threw or hung.  A unit that
\* was rejected ran nothing.
GlobalsAfter(preamble, globals, e) ==
    LET stops == UndefinedAt(preamble, globals) \cup LoopAt(preamble)
        ran == IF e = "none" THEN 1..Len(preamble)
               ELSE IF e \in {"not defined", "hangs"} THEN 1..(Min(stops) - 1)
               ELSE {}
    IN  globals \cup (IF LeakAt(preamble) \cap ran # {} THEN {NameRv} ELSE {})

\* Mutant of HSnippets: the infos are paired with the elements in reverse.
HSnippetsReversed(infos, generators) ==
    [i \in 1..Len(infos) |->
        [header |-> infos[i].header,
         generatorFunction |-> generators[Len(infos) + 1 - i].generatorFunction,
         contextFilter |-> generators[Len(infos) + 1 - i].contextFilter]]

\* parser.ts:182-184: the HSnippet of each info, paired by position with the
\* element the unit returned
HSnippets(infos, generators) ==
    [i \in 1..Len(infos) |->
        [header |-> infos[i].header,
         generatorFunction |-> generators[i].generatorFunction,
         contextFilter |-> generators[i].contextFilter]]

----------------------------------------------------------------------------
(* File names (extension.ts:44 and 52) *)

KwHsnipsExt == <<".", "h", "s", "n", "i", "p", "s">>

\* String.prototype.toLowerCase, on the capitals the file names use
LowerCase ==
    ("A" :> "a") @@ ("H" :> "h") @@ ("I" :> "i") @@ ("N" :> "n") @@ ("P" :> "p")
    @@ ("S" :> "s")
toLowerCase(s) ==
    [i \in 1..Len(s) |-> IF s[i] \in DOMAIN LowerCase THEN LowerCase[s[i]] ELSE s[i]]

\* path.extname: from the last dot to the end; none when there is no dot or
\* the only dot is the first character
extname(name) ==
    LET dots == {i \in 2..Len(name) : name[i] = "."}
    IN  IF dots = {} THEN <<>> ELSE SubSeq(name, Max(dots), Len(name))

\* path.basename(name, ext): the name without ext, when it ends with ext
\* (compared as written) and is more than ext
basename(name, ext) ==
    IF EndsWith(name, ext) /\ name # ext THEN SubSeq(name, 1, Len(name) - Len(ext)) ELSE name

\* extension.ts:44: the filter of the directory listing
IsHsnipFile(name) == toLowerCase(extname(name)) = KwHsnipsExt

\* extension.ts:52: the language a file's snippets are stored under
LanguageOf(name) == toLowerCase(basename(name, KwHsnipsExt))

KwAll == <<"a", "l", "l">>

\* Map.prototype.set
MapSet(map, key, value) ==
    [k \in DOMAIN map \cup {key} |-> IF k = key THEN value ELSE map[k]]

\* Array.prototype.sort((a, b) => b.priority - a.priority), extension.ts:73:
\* the sort is stable, so an element goes behind every element whose priority
\* is not lower and that came before it.
RECURSIVE SortByPriority(_)
SortByPriority(list) ==
    IF list = <<>> THEN <<>>
    ELSE LET front == SortByPriority(SubSeq(list, 1, Len(list) - 1))
             x == list[Len(list)]
             lower == {i \in 1..Len(front) : front[i].header.priority < x.header.priority}
             at == IF lower = {} THEN Len(front) + 1 ELSE Min(lower)
         IN  SubSeq(front, 1, at - 1) \o <<x>> \o SubSeq(front, at, Len(front))

\* Mutant of MergeAndSort: the lists are sorted before the merge.
MergeAfterSort(map) ==
    [l \in DOMAIN map |->
        IF KwAll \in DOMAIN map /\ l # KwAll
        THEN SortByPriority(map[l]) \o SortByPriority(map[KwAll])
        ELSE SortByPriority(map[l])]

\* extension.ts:63-74: the snippets of 'all' are appended to every other
\* language's list, then every list is sorted.
MergeAndSort(map) ==
    [l \in DOMAIN map |->
        SortByPriority(IF KwAll \in DOMAIN map /\ l # KwAll THEN map[l] \o map[KwAll]
                       ELSE map[l])]

----------------------------------------------------------------------------
(* Inputs *)

Str_a == <<"a">>
Str_t == <<"t">>
LineSnippetA == KwSnippet \o <<" ", "a">>
LineSnippetB == KwSnippet \o <<" ", "b">>
LinePriority5 == KwPriority \o <<"5">>
LinePriority7 == KwPriority \o <<"7">>
LineContext == KwContext \o <<"c">>
LineComment == KwComment \o <<" ", "c">>
LineLetX == KwLet \o <<"x">>
LineOther == <<"z", "z">>

\* Seqs(S, n): the sequences over S of length at most n
SeqsUpTo(S, n) == UNION {[1..k -> S] : k \in 0..n}

\* Files of directives: at most MaxItems items, each a directive line, a
\* global block or a whole snippet.
MaxItems == 4
Items ==
    { <<LinePriority5>>, <<LinePriority7>>, <<LineContext>>, <<LineComment>>, <<LineOther>>,
      <<KwGlobal, LineLetX, KwEndGlobal>>,
      <<LineSnippetA, Str_t, KwEndSnippet>> }
DirectiveFiles == { JoinLines(Flatten(f)) : f \in SeqsUpTo(Items, MaxItems) }

\* Files of bodies: one snippet whose body is at most MaxBodyTokens tokens (a
\* letter, one backtick, the delimiter, a block that assigns rv, a block that
\* holds an expression, a line break, the closing keyword), followed by the
\* closing keyword, a context directive and a second snippet.
MaxBodyTokens == 4
BlockAssign == CODE_DELIMITER \o <<" ">> \o KwRvAssign \o <<"1", "+", "1", " ">> \o CODE_DELIMITER
BlockExpression == CODE_DELIMITER \o <<"1", "+", "1">> \o CODE_DELIMITER
BodyTokens ==
    { Str_a, <<BT>>, CODE_DELIMITER, BlockAssign, BlockExpression, <<NL>>, KwEndSnippet }
BodyTrailer == <<KwEndSnippet, LineContext, LineSnippetB, Str_t, KwEndSnippet>>
BodyFiles ==
    { LineSnippetA \o <<NL>> \o Flatten(b) \o <<NL>> \o JoinLines(BodyTrailer) :
        b \in SeqsUpTo(BodyTokens, MaxBodyTokens) }

\* Files of headers: one snippet whose declaration is the keyword followed by
\* an optional trigger (none, a literal, a pattern, a pattern that ends with
\* the anchor, an unclosed pattern, a pattern that ends with an escaped dollar
\* sign), an optional description and optional flags (at most MaxFlags of them).
MaxFlags == 2
TriggerParts ==
    { <<>>, <<" ", "a">>, <<" ", BT, "a", BT>>, <<" ", BT, "a", "$", BT>>, <<" ", BT, "a">>,
      <<" ", BT, "a", "\\", "$", BT>> }
DescriptionParts == { <<>>, <<" ", "\"", "d", "\"">>, <<" ", "\"", "d", " ", "e", "\"">> }
FlagParts == { <<>> } \cup { <<" ">> \o f : f \in SeqsUpTo(FlagChars, MaxFlags) }
HeaderLines ==
    { KwSnippet \o tr \o de \o fl : tr \in TriggerParts, de \in DescriptionParts, fl \in FlagParts }
HeaderFiles == { JoinLines(<<h, Str_t, KwEndSnippet>>) : h \in HeaderLines }

\* Files of text: one snippet whose body is one line of at most MaxTextLen
\* characters, each a letter, a backslash or a double quote.
MaxTextLen == 3
EscapeChars == {"a", "\\", "\""}
EscapeFiles ==
    { JoinLines(<<LineSnippetA, l, KwEndSnippet>>) : l \in SeqsUpTo(EscapeChars, MaxTextLen) }

\* Files of nested lines: a global block and, after a priority directive, a
\* snippet, each holding the same at most MaxNested lines that would be
\* directives or declarations at top level; the body may open a script
\* block between two copies of them.
MaxNested == 2
NestedLines == { LinePriority7, LineContext, LineComment, KwGlobal, LineSnippetB }
NestedFiles ==
    { JoinLines(<<KwGlobal>> \o d \o <<KwEndGlobal, LinePriority5, LineSnippetA>> \o d
                \o sep \o d \o <<KwEndSnippet>>) :
        d \in SeqsUpTo(NestedLines, MaxNested), sep \in {<<>>, <<CODE_DELIMITER>>} }

\* Files whose global block holds an endless loop: alone, after a
\* declaration, before a redeclaration, after a name nothing declares.
LineForever == KwForever
LoopFiles ==
    { JoinLines(<<KwGlobal>> \o p \o <<KwEndGlobal, LineSnippetA, Str_t, KwEndSnippet>>) :
        p \in { <<LineForever>>, <<LineLetX, LineForever>>,
                <<LineForever, LineLetX, LineLetX>>, <<LineOther, LineForever>> } }

Files ==
    DirectiveFiles \cup BodyFiles \cup HeaderFiles \cup EscapeFiles \cup NestedFiles
    \cup LoopFiles

\* A part of them, small enough to follow every run to its end: the files of
\* text and of loops, the files of one item, and the files of a body of one
\* token.
ShortFiles ==
    EscapeFiles \cup LoopFiles
    \cup { JoinLines(item) : item \in Items }
    \cup { LineSnippetA \o <<NL>> \o token \o <<NL>> \o JoinLines(BodyTrailer) :
             token \in BodyTokens }

\* The names of the files of the snippet directory: two that differ only in
\* case, the file of the snippets of all languages, and a file that is no
\* snippet file.
FileLower == <<"a">> \o KwHsnipsExt
FileUpper == <<"A">> \o KwHsnipsExt
FileAll == <<"a", "l", "l">> \o KwHsnipsExt
FileText == <<"a", ".", "t", "x", "t">>
FileNames == { FileLower, FileUpper, FileAll, FileText }

\* The texts the files of the directory hold: a declaration in a global
\* block; the same declaration in two global blocks; an assignment to a name
\* nothing declares; a read of that name; a stated priority and a body that
\* ends inside a script block; an endless loop; a snippet of stated priority
\* before one of none.
TextDeclares ==
    JoinLines(<<LineComment, KwGlobal, LineLetX, KwEndGlobal, LineSnippetA, Str_t, KwEndSnippet>>)
TextDeclaresTwice ==
    JoinLines(<<KwGlobal, LineLetX, KwEndGlobal, LineOther, KwGlobal, LineLetX, KwEndGlobal,
                LineSnippetA, Str_t, KwEndSnippet>>)
TextAssigns ==
    JoinLines(<<KwGlobal, KwRvAssign \o <<"1">>, KwEndGlobal, LineContext, LineSnippetB,
                Str_a \o BlockExpression, KwEndSnippet>>)
TextReads ==
    JoinLines(<<KwGlobal, NameRv, KwEndGlobal, LineSnippetA, Str_t, KwEndSnippet>>)
TextPriority ==
    JoinLines(<<LineSnippetA, Str_t, KwEndSnippet, LinePriority5, LineSnippetB, CODE_DELIMITER,
                <<"1", "+", "1">> >>)
TextLoops ==
    JoinLines(<<KwGlobal, LineForever, KwEndGlobal>>)
TextOrdered ==
    JoinLines(<<LinePriority5, LineSnippetB, Str_a, KwEndSnippet, LineSnippetA, Str_a,
                KwEndSnippet>>)
TextsOf ==
    (FileLower :> {TextDeclares, TextDeclaresTwice, TextReads, TextOrdered})
    @@ (FileUpper :> {TextDeclares, TextAssigns})
    @@ (FileAll :> {TextPriority, TextLoops})
    @@ (FileText :> {TextDeclaresTwice})

\* The directories: each file is absent or holds one of its texts.
Dirs ==
    UNION { {d \in [S -> UNION {TextsOf[n] : n \in S}] : \A n \in S : d[n] \in TextsOf[n]} :
              S \in SUBSET FileNames }

\* The directories one file event away from d: a file created, deleted or
\* changed.
Neighbours(d) ==
    UNION { {d @@ (n :> t) : t \in TextsOf[n]} : n \in FileNames \ DOMAIN d }
    \cup { [m \in DOMAIN d \ {n} |-> d[m]] : n \in DOMAIN d }
    \cup UNION { {[d EXCEPT ![n] = t] : t \in TextsOf[n] \ {d[n]}} : n \in DOMAIN d }

\* The orders readdirSync may list a set of files in
Orders(S) ==
    {o \in [1..Cardinality(S) -> S] : \A i, j \in 1..Cardinality(S) : o[i] = o[j] => i = j}

----------------------------------------------------------------------------
(* parse, one iteration of its loops per step *)

\* A Map, and a directory, without entries
EmptyMap == [l \in {} |-> <<>>]

\* extension.ts:17: no timer is pending
NoTimeout == -1

\* No expansion was ever started
ExpanderAtRest ==
    /\ insertingSnippet = FALSE
    /\ SNIPPET_STACK = <<>>
    /\ expansions = <<>>

\* The loader before loadSnippets was ever entered
LoaderAtRest ==
    /\ dir = EmptyMap
    /\ SNIPPETS_BY_LANGUAGE = EmptyMap
    /\ loadpc = "idle"
    /\ hsnipFiles = <<>>
    /\ file = <<>>
    /\ loadSnippetsTimeout = NoTimeout
    /\ timers = {}
    /\ attempts = <<>>
    /\ notifications = {}
    /\ parsed = <<>>
    /\ loads = 0

NoOut == [snippet |-> 0, status |-> "none", result |-> <<>>, blockResults |-> <<>>]

Init ==
    /\ content \in Files
    /\ pc = "top"
    /\ lines = SplitLines(content)
    /\ snippetInfos = <<>>
    /\ script = <<>>
    /\ isCode = FALSE
    /\ priority = 0
    /\ context = <<>>
    /\ snip = NoSnip
    /\ outcome = "none"
    /\ error = "none"
    /\ result = <<>>
    /\ out = NoOut
    /\ hist = <<>>
    /\ globalNames = {}
    /\ LoaderAtRest
    /\ ExpanderAtRest

\* What a step of the top-level loop leaves alone besides what it names
TopFrame == UNCHANGED <<content, pc, snippetInfos, snip, outcome, error, result, out,
                        globalNames, loadVars, expandVars>>

Read(kind) == hist' = Append(hist, [kind |-> kind, line |-> Head(lines)])

\* Mutant of TopPreamble: a priority directive is obeyed inside a global
\* block too.
TopPreambleObeysPriority ==
    /\ pc = "top" /\ lines # <<>> /\ isCode
    /\ lines' = Tail(lines)
    /\ IF StartsWith(Head(lines), KwEndGlobal)
       THEN isCode' = FALSE /\ script' = script /\ Read("endglobal")
       ELSE isCode' = isCode /\ script' = Append(script, Head(lines)) /\ Read("preamble")
    /\ priority' = IF StartsWith(Head(lines), KwPriority)
                   THEN NumberOrZero(Trim(Substring(Head(lines), Len(KwPriority))))
                   ELSE priority
    /\ UNCHANGED context
    /\ TopFrame

\* parser.ts:105-110: a line inside a global block
TopPreamble ==
    /\ pc = "top" /\ lines # <<>> /\ isCode
    /\ lines' = Tail(lines)
    /\ IF StartsWith(Head(lines), KwEndGlobal)
       THEN isCode' = FALSE /\ script' = script /\ Read("endglobal")
       ELSE isCode' = isCode /\ script' = Append(script, Head(lines)) /\ Read("preamble")
    /\ UNCHANGED <<priority, context>>
    /\ TopFrame

\* parser.ts:111-112
TopComment ==
    /\ pc = "top" /\ lines # <<>> /\ ~isCode
    /\ StartsWith(Head(lines), KwComment)
    /\ lines' = Tail(lines)
    /\ Read("comment")
    /\ UNCHANGED <<script, isCode, priority, context>>
    /\ TopFrame

\* parser.ts:113-114
TopGlobal ==
    /\ pc = "top" /\ lines # <<>> /\ ~isCode
    /\ ~StartsWith(Head(lines), KwComment)
    /\ StartsWith(Head(lines), KwGlobal)
    /\ lines' = Tail(lines)
    /\ isCode' = TRUE
    /\ Read("global")
    /\ UNCHANGED <<script, priority, context>>
    /\ TopFrame

\* The value a priority directive sets, parser.ts:116
PriorityOf(line) == NumberOrZero(Trim(Substring(line, Len(KwPriority))))

\* The expression a context directive sets, parser.ts:118
ContextOf(line) == Trim(Substring(line, Len(KwContext)))

\* parser.ts:115-116
TopPriority ==
    /\ pc = "top" /\ lines # <<>> /\ ~isCode
    /\ ~StartsWith(Head(lines), KwComment)
    /\ ~StartsWith(Head(lines), KwGlobal)
    /\ StartsWith(Head(lines), KwPriority)
    /\ lines' = Tail(lines)
    /\ priority' = PriorityOf(Head(lines))
    /\ Read("priority")
    /\ UNCHANGED <<script, isCode, context>>
    /\ TopFrame

\* parser.ts:117-118
TopContext ==
    /\ pc = "top" /\ lines # <<>> /\ ~isCode
    /\ ~StartsWith(Head(lines), KwComment)
    /\ ~StartsWith(Head(lines), KwGlobal)
    /\ ~StartsWith(Head(lines), KwPriority)
    /\ StartsWith(Head(lines), KwContext)
    /\ lines' = Tail(lines)
    /\ context' = ContextOf(Head(lines))
    /\ Read("context")
    /\ UNCHANGED <<script, isCode, priority>>
    /\ TopFrame

IsDirective(line) ==
    \/ StartsWith(line, KwComment)
    \/ StartsWith(line, KwGlobal)
    \/ StartsWith(line, KwPriority)
    \/ StartsWith(line, KwContext)

\* parser.ts:119-120 and 43-50: a declaration starts parseSnippet on the
\* stream after it
TopSnippet ==
    /\ pc = "top" /\ lines # <<>> /\ ~isCode
    /\ ~IsDirective(Head(lines))
    /\ HEADER_REGEXP(Head(lines)).ok
    /\ lines' = Tail(lines)
    /\ snip' = SnipStart(Head(lines))
    /\ pc' = "body"
    /\ Read("snippet")
    /\ UNCHANGED <<content, snippetInfos, script, isCode, priority, context,
                   outcome, error, result, out, globalNames, loadVars, expandVars>>

\* parser.ts:102-128: a line no branch takes is dropped
TopOther ==
    /\ pc = "top" /\ lines # <<>> /\ ~isCode
    /\ ~IsDirective(Head(lines))
    /\ ~HEADER_REGEXP(Head(lines)).ok
    /\ lines' = Tail(lines)
    /\ Read("other")
    /\ UNCHANGED <<script, isCode, priority, context>>
    /\ TopFrame

\* What a step of parseSnippet's loop leaves alone besides lines and snip
BodyFrame ==
    UNCHANGED <<content, pc, snippetInfos, script, isCode, priority, context,
                outcome, error, result, out, hist, globalNames, loadVars, expandVars>>

\* parser.ts:55-57
BodyCode ==
    /\ pc = "body" /\ lines # <<>> /\ snip.isCode
    /\ ~Includes(Head(lines), CODE_DELIMITER)
    /\ snip' = SnipCodeLine(snip, Head(lines))
    /\ lines' = Tail(lines)
    /\ BodyFrame

\* parser.ts:58-65
BodyCodeClose ==
    /\ pc = "body" /\ lines # <<>> /\ snip.isCode
    /\ Includes(Head(lines), CODE_DELIMITER)
    /\ snip' = SnipCodeClose(snip, Head(lines))
    /\ lines' = Unshift(SplitRest(Head(lines)), Tail(lines))
    /\ BodyFrame

\* parser.ts:69-71
BodyText ==
    /\ pc = "body" /\ lines # <<>> /\ ~snip.isCode
    /\ ~StartsWith(Head(lines), KwEndSnippet)
    /\ ~Includes(Head(lines), CODE_DELIMITER)
    /\ snip' = SnipTextLine(snip, Head(lines))
    /\ lines' = Tail(lines)
    /\ BodyFrame

\* parser.ts:72-78
BodyTextOpen ==
    /\ pc = "body" /\ lines # <<>> /\ ~snip.isCode
    /\ ~StartsWith(Head(lines), KwEndSnippet)
    /\ Includes(Head(lines), CODE_DELIMITER)
    /\ snip' = SnipTextOpen(snip, Head(lines))
    /\ lines' = Unshift(SplitRest(Head(lines)), Tail(lines))
    /\ BodyFrame

\* Mutant of Return: the pending priority is not cleared.
ReturnKeepsPriority ==
    /\ snippetInfos' = Append(snippetInfos, SnipInfo(snip, priority, context))
    /\ priority' = priority
    /\ context' = <<>>
    /\ snip' = NoSnip
    /\ pc' = "top"
    /\ UNCHANGED <<content, script, isCode, outcome, error, result, out, hist,
                   globalNames, loadVars, expandVars>>

\* Mutant of Return: the pending context is not cleared.
ReturnKeepsContext ==
    /\ snippetInfos' = Append(snippetInfos, SnipInfo(snip, priority, context))
    /\ priority' = 0
    /\ context' = context
    /\ snip' = NoSnip
    /\ pc' = "top"
    /\ UNCHANGED <<content, script, isCode, outcome, error, result, out, hist,
                   globalNames, loadVars, expandVars>>

\* parser.ts:82-87 and 121-126: parseSnippet returns; parse attaches the
\* pending priority and context, appends the info and clears both.
Return ==
    /\ snippetInfos' = Append(snippetInfos, SnipInfo(snip, priority, context))
    /\ priority' = 0
    /\ context' = <<>>
    /\ snip' = NoSnip
    /\ pc' = "top"
    /\ UNCHANGED <<content, script, isCode, outcome, error, result, out, hist,
                   globalNames, loadVars, expandVars>>

\* Mutant of BodyEnd: the closing keyword is left on the stream.
BodyEndKeepsLine ==
    /\ pc = "body" /\ lines # <<>> /\ ~snip.isCode
    /\ StartsWith(Head(lines), KwEndSnippet)
    /\ lines' = lines
    /\ Return

\* parser.ts:67-68: the closing keyword, met in text mode, ends the loop
BodyEnd ==
    /\ pc = "body" /\ lines # <<>> /\ ~snip.isCode
    /\ StartsWith(Head(lines), KwEndSnippet)
    /\ lines' = Tail(lines)
    /\ Return

\* parser.ts:52: the stream ran out inside the body
BodyEndOfInput ==
    /\ pc = "body" /\ lines = <<>>
    /\ lines' = lines
    /\ Return

\* Mutant of Execute: the snippets are returned although the unit failed.
ExecuteReturnsDespiteError ==
    /\ pc = "top" /\ lines = <<>>
    /\ \E e \in ExecErrors(script, snippetInfos, globalNames) \ {"hangs"} :
        /\ error' = e
        /\ globalNames' = GlobalsAfter(script, globalNames, e)
        /\ outcome' = IF e = "none" THEN "returned" ELSE "threw"
        /\ result' = HSnippets(snippetInfos, UnitElements(snippetInfos))
    /\ pc' = "done"
    /\ UNCHANGED <<content, lines, snippetInfos, script, isCode, priority, context,
                   snip, out, hist, loadVars, expandVars>>

\* parser.ts:130-185: the stream ran out at top level; the unit is assembled
\* and executed, and parse returns the HSnippets or throws.
Execute ==
    /\ pc = "top" /\ lines = <<>>
    /\ \E e \in ExecErrors(script, snippetInfos, globalNames) \ {"hangs"} :
        /\ error' = e
        /\ globalNames' = GlobalsAfter(script, globalNames, e)
        /\ outcome' = IF e = "none" THEN "returned" ELSE "threw"
        /\ result' = IF e = "none"
                     THEN HSnippets(snippetInfos, UnitElements(snippetInfos))
                     ELSE <<>>
    /\ pc' = "done"
    /\ UNCHANGED <<content, lines, snippetInfos, script, isCode, priority, context,
                   snip, out, hist, loadVars, expandVars>>

\* parser.ts:160: the preamble never ends, and the call of the unit, and with
\* it parse, never returns.
ExecuteHangs ==
    /\ pc = "top" /\ lines = <<>>
    /\ "hangs" \in ExecErrors(script, snippetInfos, globalNames)
    /\ globalNames' = GlobalsAfter(script, globalNames, "hangs")
    /\ pc' = "executing"
    /\ UNCHANGED <<content, lines, snippetInfos, script, isCode, priority, context,
                   snip, outcome, error, result, out, hist, loadVars, expandVars>>

\* A returned generator is called (the expansion engine does, with some
\* match): generatorFunction(t, m, w, path, snip).
Invoke ==
    /\ pc = "done" /\ outcome = "returned"
    /\ \E i \in 1..Len(result) :
        out' = [snippet |-> i] @@
               RunGenerator(result[i].generatorFunction,
                            BuiltinNames \cup PreambleNames(script) \cup globalNames)
    /\ pc' = "invoked"
    /\ UNCHANGED <<content, lines, snippetInfos, script, isCode, priority, context,
                   snip, outcome, error, result, hist, globalNames, loadVars, expandVars>>

Next ==
    \/ TopPreamble
    \/ TopComment
    \/ TopGlobal
    \/ TopPriority
    \/ TopContext
    \/ TopSnippet
    \/ TopOther
    \/ BodyCode
    \/ BodyCodeClose
    \/ BodyText
    \/ BodyTextOpen
    \/ BodyEnd
    \/ BodyEndOfInput
    \/ Execute
    \/ ExecuteHangs
    \/ Invoke

Spec == Init /\ [][Next]_vars

\* The steps parse takes by itself: the iterations of its two loops, and the
\* call of the unit.
ParseStep ==
    \/ TopPreamble \/ TopComment \/ TopGlobal \/ TopPriority \/ TopContext
    \/ TopSnippet \/ TopOther
    \/ BodyCode \/ BodyCodeClose \/ BodyText \/ BodyTextOpen \/ BodyEnd \/ BodyEndOfInput
    \/ Execute \/ ExecuteHangs

\* parse on the short files.  parse is sequential code: a step it can take,
\* it takes.
ShortInit ==
    /\ content \in ShortFiles
    /\ pc = "top"
    /\ lines = SplitLines(content)
    /\ snippetInfos = <<>>
    /\ script = <<>>
    /\ isCode = FALSE
    /\ priority = 0
    /\ context = <<>>
    /\ snip = NoSnip
    /\ outcome = "none"
    /\ error = "none"
    /\ result = <<>>
    /\ out = NoOut
    /\ hist = <<>>
    /\ globalNames = {}
    /\ LoaderAtRest
    /\ ExpanderAtRest

FairSpec == ShortInit /\ [][Next]_vars /\ WF_vars(ParseStep)

----------------------------------------------------------------------------
(* loadSnippets (extension.ts:24-102), one iteration of its loop per step,  *)
(* the steps of each parse call in between                                 *)

\* How many times loadSnippets is entered
MaxLoads == 2

\* The message of the notification that is not about one file
GeneralFailure == <<"H", "S", "n", "i", "p", "s">>

\* How many events call loadSnippets, where retries are not counted
MaxEvents == 2

\* Mutant of Enter: the timer armed before is not cleared.
EnterKeepsTimer(d, event, retryCount, armed) ==
    /\ loadpc \in {"idle", "loaded"}
    /\ loads' = loads + 1
    /\ dir' = d
    /\ SNIPPETS_BY_LANGUAGE' = EmptyMap
    /\ parsed' = <<>>
    /\ file' = <<>>
    /\ \E env \in {"listed", "no directory", "not ready", "throws"} :
        /\ attempts' = IF retryCount = 0 THEN Append(attempts, <<env>>)
                       ELSE [attempts EXCEPT ![event] = Append(@, env)]
        /\ IF env = "listed"
           THEN /\ hsnipFiles' \in Orders({n \in DOMAIN d : IsHsnipFile(n)})
                /\ loadpc' = "files"
           ELSE /\ hsnipFiles' = <<>>
                /\ loadpc' = "idle"
        /\ IF env = "not ready" /\ retryCount < 3
           THEN /\ timers' = armed
                       \cup {[id |-> loads + 1, event |-> event, retryCount |-> retryCount + 1]}
                /\ loadSnippetsTimeout' = loads + 1
           ELSE /\ timers' = armed
                /\ loadSnippetsTimeout' = loadSnippetsTimeout
        /\ notifications' =
               IF env = "throws" \/ (env = "not ready" /\ retryCount >= 3)
               THEN {GeneralFailure} ELSE {}
    /\ UNCHANGED <<parseVars, globalNames, expandVars>>

\* extension.ts:25-46 and 81-101: loadSnippets(context, retryCount) is
\* entered for the chain of the given event, with the directory d on disk,
\* while the timers `armed` are pending.  The Map is cleared first.  Then
\* the directory is found and listed (in some order, the snippet files
\* only), or there is no directory to load from, or finding it throws: an
\* Error about a dependency that is not ready clears the timer the handle
\* names and arms a new one while retryCount < 3; any other error, and that
\* error at the last attempt, is notified.
Enter(d, event, retryCount, armed) ==
    /\ loadpc \in {"idle", "loaded"}
    /\ loads' = loads + 1
    /\ dir' = d
    /\ SNIPPETS_BY_LANGUAGE' = EmptyMap
    /\ parsed' = <<>>
    /\ file' = <<>>
    /\ \E env \in {"listed", "no directory", "not ready", "throws"} :
        /\ attempts' = IF retryCount = 0 THEN Append(attempts, <<env>>)
                       ELSE [attempts EXCEPT ![event] = Append(@, env)]
        /\ IF env = "listed"
           THEN /\ hsnipFiles' \in Orders({n \in DOMAIN d : IsHsnipFile(n)})
                /\ loadpc' = "files"
           ELSE /\ hsnipFiles' = <<>>
                /\ loadpc' = "idle"
        /\ IF env = "not ready" /\ retryCount < 3
           THEN /\ timers' = {t \in armed : t.id # loadSnippetsTimeout}
                       \cup {[id |-> loads + 1, event |-> event, retryCount |-> retryCount + 1]}
                /\ loadSnippetsTimeout' = loads + 1
           ELSE /\ timers' = armed
                /\ loadSnippetsTimeout' = loadSnippetsTimeout
        /\ notifications' =
               IF env = "throws" \/ (env = "not ready" /\ retryCount >= 3)
               THEN {GeneralFailure} ELSE {}
    /\ UNCHANGED <<parseVars, globalNames, expandVars>>

\* extension.ts:307-311 (and 246, 265, 344): the reload command, the
\* activation, a changed setting or a saved snippet file calls
\* loadSnippets(context); the directory is as it was.
Reload ==
    /\ Len(attempts) < MaxEvents
    /\ Enter(dir, Len(attempts) + 1, 0, timers)

\* extension.ts:94-96: a retry timer fires and calls
\* loadSnippets(context, retryCount + 1).
RetryTimer ==
    \E t \in timers : Enter(dir, t.event, t.retryCount, timers \ {t})

\* extension.ts:119-138: the directory watcher calls loadSnippets(context)
\* after one file was created, deleted or changed; or something else calls
\* it, the directory being as it was.
LoadEvent ==
    /\ loads < MaxLoads
    /\ \E d \in {dir} \cup Neighbours(dir) : Enter(d, Len(attempts) + 1, 0, timers)

\* A retry timer fires, while loads are counted
LoadRetry ==
    /\ loads < MaxLoads
    /\ RetryTimer

\* extension.ts:152-162 and 444-447: the extension is deactivated; cleanup
\* clears the timer the handle names, and nothing calls loadSnippets again.
Deactivate ==
    /\ loadpc \in {"idle", "loaded"}
    /\ loadpc' = "deactivated"
    /\ timers' = {t \in timers : t.id # loadSnippetsTimeout}
    /\ loadSnippetsTimeout' = NoTimeout
    /\ UNCHANGED <<parseVars, globalNames, expandVars, dir, SNIPPETS_BY_LANGUAGE, hsnipFiles,
                   file, attempts, notifications, parsed, loads>>

\* extension.ts:48-54 and parser.ts:93-100: the loop takes the next file,
\* reads it and calls parse, which starts from fresh locals.
LoadFile ==
    /\ loadpc = "files" /\ hsnipFiles # <<>>
    /\ file' = Head(hsnipFiles)
    /\ hsnipFiles' = Tail(hsnipFiles)
    /\ loadpc' = "parsing"
    /\ content' = dir[Head(hsnipFiles)]
    /\ pc' = "top"
    /\ lines' = SplitLines(dir[Head(hsnipFiles)])
    /\ snippetInfos' = <<>>
    /\ script' = <<>>
    /\ isCode' = FALSE
    /\ priority' = 0
    /\ context' = <<>>
    /\ snip' = NoSnip
    /\ outcome' = "none"
    /\ error' = "none"
    /\ result' = <<>>
    /\ out' = NoOut
    /\ hist' = <<>>
    /\ UNCHANGED <<globalNames, dir, SNIPPETS_BY_LANGUAGE, loadSnippetsTimeout, timers, attempts,
                   notifications, parsed, loads, expandVars>>

\* The record the history keeps of a finished parse call
Call == [file |-> file, content |-> content, outcome |-> outcome, error |-> error,
         result |-> result]

\* Mutant of LoadCatch: the failure of a file ends the loop.
LoadCatchEndsLoop ==
    /\ loadpc = "parsing" /\ pc = "done" /\ outcome = "threw"
    /\ notifications' = notifications \cup {file}
    /\ parsed' = Append(parsed, Call)
    /\ pc' = "idle"
    /\ loadpc' = "files"
    /\ hsnipFiles' = <<>>
    /\ UNCHANGED <<content, lines, snippetInfos, script, isCode, priority, context, snip,
                   outcome, error, result, out, hist, globalNames, dir, SNIPPETS_BY_LANGUAGE,
                   file, loadSnippetsTimeout, timers, attempts, loads, expandVars>>

\* extension.ts:55: parse returned; its snippets are stored under the
\* file's language.
LoadSet ==
    /\ loadpc = "parsing" /\ pc = "done" /\ outcome = "returned"
    /\ SNIPPETS_BY_LANGUAGE' = MapSet(SNIPPETS_BY_LANGUAGE, LanguageOf(file), result)
    /\ parsed' = Append(parsed, Call)
    /\ pc' = "idle"
    /\ loadpc' = "files"
    /\ UNCHANGED <<content, lines, snippetInfos, script, isCode, priority, context, snip,
                   outcome, error, result, out, hist, globalNames, dir, hsnipFiles, file,
                   loadSnippetsTimeout, timers, attempts, notifications, loads, expandVars>>

\* extension.ts:57-60: parse threw; the error is shown and the loop goes on.
LoadCatch ==
    /\ loadpc = "parsing" /\ pc = "done" /\ outcome = "threw"
    /\ notifications' = notifications \cup {file}
    /\ parsed' = Append(parsed, Call)
    /\ pc' = "idle"
    /\ loadpc' = "files"
    /\ UNCHANGED <<content, lines, snippetInfos, script, isCode, priority, context, snip,
                   outcome, error, result, out, hist, globalNames, dir, SNIPPETS_BY_LANGUAGE,
                   hsnipFiles, file, loadSnippetsTimeout, timers, attempts, loads,
                   expandVars>>

\* extension.ts:63-79: the loop is over; the snippets of 'all' are merged
\* into the other languages, every list is sorted, the watcher is set up.
LoadEnd ==
    /\ loadpc = "files" /\ hsnipFiles = <<>>
    /\ SNIPPETS_BY_LANGUAGE' = MergeAndSort(SNIPPETS_BY_LANGUAGE)
    /\ loadpc' = "loaded"
    /\ UNCHANGED <<parseVars, globalNames, dir, hsnipFiles, file, loadSnippetsTimeout,
                   timers, attempts,
                   notifications, parsed, loads, expandVars>>

LoadNext ==
    \/ LoadEvent
    \/ LoadRetry
    \/ LoadFile
    \/ LoadSet
    \/ LoadCatch
    \/ LoadEnd
    \/ TopPreamble
    \/ TopComment
    \/ TopGlobal
    \/ TopPriority
    \/ TopContext
    \/ TopSnippet
    \/ TopOther
    \/ BodyCode
    \/ BodyCodeClose
    \/ BodyText
    \/ BodyTextOpen
    \/ BodyEnd
    \/ BodyEndOfInput
    \/ Execute
    \/ ExecuteHangs

\* The extension before its activation, over some snippet directory
LoadInit ==
    /\ content = <<>>
    /\ pc = "idle"
    /\ lines = <<>>
    /\ snippetInfos = <<>>
    /\ script = <<>>
    /\ isCode = FALSE
    /\ priority = 0
    /\ context = <<>>
    /\ snip = NoSnip
    /\ outcome = "none"
    /\ error = "none"
    /\ result = <<>>
    /\ out = NoOut
    /\ hist = <<>>
    /\ globalNames = {}
    /\ dir \in Dirs
    /\ SNIPPETS_BY_LANGUAGE = EmptyMap
    /\ loadpc = "idle"
    /\ hsnipFiles = <<>>
    /\ file = <<>>
    /\ loadSnippetsTimeout = NoTimeout
    /\ timers = {}
    /\ attempts = <<>>
    /\ notifications = {}
    /\ parsed = <<>>
    /\ loads = 0
    /\ ExpanderAtRest

LoadSpec == LoadInit /\ [][LoadNext]_vars

\* The retry chain by itself: the calls of loadSnippets over a directory
\* that holds no snippet file, so that a load that lists it goes straight to
\* its end.
RetryInit ==
    /\ LoadInit
    /\ \A n \in DOMAIN dir : ~IsHsnipFile(n)

RetryNext ==
    \/ Reload
    \/ RetryTimer
    \/ LoadEnd
    \/ Deactivate

RetrySpec == RetryInit /\ [][RetryNext]_vars

----------------------------------------------------------------------------
(* expandSnippet (extension.ts:168-215) and the handlers that call it       *)

\* How many times expandSnippet is called
MaxExpansions == 3

\* The calls that have passed line 200 and not yet line 214
InProgress == {i \in 1..Len(expansions) : expansions[i].at \in {"edit", "insert"}}

\* extension.ts:173-206: expandSnippet runs up to its first await: it sets
\* the flag and asks for the delete edit.
Begin(by) ==
    /\ insertingSnippet' = TRUE
    /\ expansions' = Append(expansions, [by |-> by, at |-> "edit"])
    /\ UNCHANGED <<SNIPPET_STACK, parseVars, globalNames, loadVars>>

\* extension.ts:350-357: the command hsnips.expand calls expandSnippet,
\* whatever the flag says.
ExpandCommand ==
    /\ Len(expansions) < MaxExpansions
    /\ Begin("command")

\* extension.ts:361-397: the document changed (by the user, or by an edit
\* of an expansion) and the listener found one completion to expand; it
\* returns early while the flag is set.
DocumentChange ==
    /\ Len(expansions) < MaxExpansions
    /\ ~insertingSnippet
    /\ Begin("automatic")

\* extension.ts:201-211: the delete edit is over (applied or not); the call
\* goes on and asks for the insertion.
EditResolves ==
    \E i \in 1..Len(expansions) :
        /\ expansions[i].at = "edit"
        /\ expansions' = [expansions EXCEPT ![i].at = "insert"]
        /\ UNCHANGED <<insertingSnippet, SNIPPET_STACK, parseVars, globalNames, loadVars>>

\* extension.ts:201 and 208: the awaited promise is rejected (the editor was
\* closed, say); the call ends there, with the exception.
Rejected ==
    \E i \in InProgress :
        /\ expansions' = [expansions EXCEPT ![i].at = "rejected"]
        /\ UNCHANGED <<insertingSnippet, SNIPPET_STACK, parseVars, globalNames, loadVars>>

\* extension.ts:208-214: the insertion is over; the instance goes on the
\* stack when it has a placeholder to visit, and the flag is cleared.
InsertResolves ==
    \E i \in 1..Len(expansions), placeholders \in BOOLEAN :
        /\ expansions[i].at = "insert"
        /\ SNIPPET_STACK' = IF placeholders THEN <<i>> \o SNIPPET_STACK ELSE SNIPPET_STACK
        /\ insertingSnippet' = FALSE
        /\ expansions' = [expansions EXCEPT ![i].at = "ended"]
        /\ UNCHANGED <<parseVars, globalNames, loadVars>>

\* extension.ts:400-404: the visible editors changed; the stack is emptied.
VisibleEditorsChange ==
    /\ SNIPPET_STACK # <<>>
    /\ SNIPPET_STACK' = <<>>
    /\ UNCHANGED <<insertingSnippet, expansions, parseVars, globalNames, loadVars>>

ExpandNext ==
    \/ ExpandCommand
    \/ DocumentChange
    \/ EditResolves
    \/ Rejected
    \/ InsertResolves
    \/ VisibleEditorsChange

\* The extension after its activation, no snippet expanded yet
ExpandInit ==
    /\ content = <<>>
    /\ pc = "idle"
    /\ lines = <<>>
    /\ snippetInfos = <<>>
    /\ script = <<>>
    /\ isCode = FALSE
    /\ priority = 0
    /\ context = <<>>
    /\ snip = NoSnip
    /\ outcome = "none"
    /\ error = "none"
    /\ result = <<>>
    /\ out = NoOut
    /\ hist = <<>>
    /\ globalNames = {}
    /\ LoaderAtRest
    /\ ExpanderAtRest

ExpandSpec == ExpandInit /\ [][ExpandNext]_vars

----------------------------------------------------------------------------
(* What the claims speak of, read off the history and the input *)

Done == pc \in {"done", "invoked"}

\* The positions in hist of the declarations parse read, and the i-th of them
DeclReads == {k \in 1..Len(hist) : hist[k].kind = "snippet"}
DeclRead(i) == CHOOSE k \in DeclReads : Cardinality({j \in DeclReads : j <= k}) = i

\* The directives of one kind read after the declaration before the i-th one
\* (after the start of the file for the first) and before the i-th
PendingReads(i, kind) ==
    {k \in (IF i = 1 THEN 1 ELSE DeclRead(i - 1) + 1)..(DeclRead(i) - 1) : hist[k].kind = kind}

\* The number a directive line "priority N" states
StatedPriority(line) == DecimalVal(SubSeq(line, Len(KwPriority) + 1, Len(line)))

\* The priority the i-th declaration is due: that of the last priority
\* directive read since the declaration before it, 0 when there is none
DuePriority(i) ==
    IF PendingReads(i, "priority") = {} THEN 0
    ELSE StatedPriority(hist[Max(PendingReads(i, "priority"))].line)

\* The context expression the i-th declaration is due, <<>> for none
DueContext(i) ==
    IF PendingReads(i, "context") = {} THEN <<>>
    ELSE SubSeq(hist[Max(PendingReads(i, "context"))].line, Len(KwContext) + 1,
                Len(hist[Max(PendingReads(i, "context"))].line))

\* The lines of the input, and the body of its first snippet when the input
\* starts with a declaration: the lines after the first up to the first line
\* that starts with the closing keyword.
SourceLines == SplitLines(content)
FirstIsDecl == StartsWith(SourceLines[1], KwSnippet)
FirstBody ==
    LET ends == {k \in 2..Len(SourceLines) : StartsWith(SourceLines[k], KwEndSnippet)}
    IN  SubSeq(SourceLines, 2, IF ends = {} THEN Len(SourceLines) ELSE Min(ends) - 1)

\* The head of the stream is a line of the input, not the rest of one
HeadIsSourceLine ==
    /\ lines # <<>>
    /\ Len(lines) <= Len(SourceLines)
    /\ lines = SubSeq(SourceLines, Len(SourceLines) - Len(lines) + 1, Len(SourceLines))

\* The script lines of a generator's source all run without an error of
\* their own: each is empty, a sum, or an assignment of a sum to rv.
WellBehaved(body) ==
    \A f \in CodeFragments(body) : CodeClass(f) \in {"empty", "expression", "assign"}

\* The block references of a segment sequence, in order
BlockRefs(segments) == SelectSeq(segments, LAMBDA sg : sg.kind = "block")

\* The concatenation of the text segments of a segment sequence
RECURSIVE ConcatText(_)
ConcatText(segments) ==
    IF segments = <<>> THEN <<>> ELSE Head(segments).text \o ConcatText(Tail(segments))

\* The statements of a script, as a set
Stmts(sc) == {sc[k] : k \in 1..Len(sc)}

----------------------------------------------------------------------------
(* C1 *)

\* C1: a priority directive reaches only the next declaration: every snippet
\* compiled so far has the priority stated by the last priority directive read
\* between the declaration before it and its own, and priority 0 when no
\* directive was read there; so no directive reaches a second snippet.
C1_PriorityOnlyNextSnippet ==
    /\ Len(snippetInfos) <= Cardinality(DeclReads)
    /\ \A i \in 1..Len(snippetInfos) : snippetInfos[i].header.priority = DuePriority(i)
    /\ (Done /\ outcome = "returned") =>
          \A i \in 1..Len(result) : result[i].header.priority = DuePriority(i)

\* Three snippets and one directive, read between the first and the second:
\* the priorities are 0, 5, 0.
C1_Witness ==
    /\ Done /\ outcome = "returned" /\ Len(result) = 3
    /\ Cardinality({k \in 1..Len(hist) : hist[k].kind = "priority"}) = 1
    /\ PendingReads(2, "priority") # {}
    /\ result[1].header.priority = 0
    /\ result[2].header.priority = 5
    /\ result[3].header.priority = 0

----------------------------------------------------------------------------
(* C7 *)

\* C7: parse never partially succeeds: until it ends nothing is returned;
\* when it ends it has either returned one snippet for each declaration it
\* read, or thrown and returned none; and it throws whenever the execution of
\* the unit fails.
C7_AllOrNothing ==
    /\ ~Done => outcome = "none" /\ result = <<>>
    /\ Done =>
        \/ outcome = "returned" /\ error = "none" /\ Len(result) = Cardinality(DeclReads)
        \/ outcome = "threw" /\ error # "none" /\ result = <<>>
    /\ (Done /\ "none" \notin ExecErrors(script, snippetInfos, globalNames)) => outcome = "threw"

\* parse threw on a file with two declarations: none of them is returned.
C7_Witness ==
    /\ Done /\ outcome = "threw" /\ result = <<>>
    /\ Cardinality(DeclReads) = 2
    /\ error = "redeclared"

----------------------------------------------------------------------------
(* C8 *)

\* C8: the returned snippets are in declaration order: the i-th pairs the
\* header parsed from the i-th declaration line, with the priority due to it,
\* with the generator compiled from the body that followed that declaration
\* and with the context expression due to it (none when none was pending);
\* the unit has one element for each declaration, in the same order.
C8_PairedInFileOrder ==
    (Done /\ outcome = "returned") =>
        /\ Len(result) = Cardinality(DeclReads)
        /\ Len(UnitElements(snippetInfos)) = Cardinality(DeclReads)
        /\ \A i \in 1..Len(result) :
            /\ result[i].header =
                  [parseSnippetHeader(hist[DeclRead(i)].line) EXCEPT !.priority = DuePriority(i)]
            /\ result[i].contextFilter = DueContext(i)
            /\ result[i].generatorFunction = snippetInfos[i].body
            /\ UnitElements(snippetInfos)[i].generatorFunction = snippetInfos[i].body
            /\ UnitElements(snippetInfos)[i].contextFilter = DueContext(i)

\* Two snippets with different triggers and bodies are returned, the second
\* with a context filter and the first without.
C8_Witness ==
    /\ Done /\ outcome = "returned" /\ Len(result) = 2
    /\ result[1].header.trigger # result[2].header.trigger
    /\ result[1].generatorFunction # result[2].generatorFunction
    /\ result[1].contextFilter = <<>>
    /\ result[2].contextFilter = <<"c">>

----------------------------------------------------------------------------
(* C2 *)

\* C2: the generator of a body in which k script blocks are closed (and
\* whose script lines run without an error of their own) returns k block
\* results and a segment sequence whose block references are 0, ..., k-1 in
\* order.  Violated: the statement dropped before the return can be the
\* append of a block result, or the declaration of the block results.
C2_BlockResultsMatchReferences ==
    (pc = "invoked" /\ WellBehaved(result[out.snippet].generatorFunction)) =>
        LET body == result[out.snippet].generatorFunction
            k == Cardinality({j \in 1..Len(body) : body[j].op = "push block"})
        IN  /\ out.status = "returned"
            /\ Len(out.blockResults) = k
            /\ Len(BlockRefs(out.result)) = k
            /\ \A j \in 1..Len(BlockRefs(out.result)) : BlockRefs(out.result)[j].block = j - 1

----------------------------------------------------------------------------
(* C3 *)

\* C3: round trip of a text-only body: the generator of a body of N lines
\* that hold no delimiter returns text segments only, whose concatenation is
\* the N lines joined by line breaks, and no block result.  Violated for
\* N = 0: the declaration of the block results is dropped before the return.
C3_TextOnlyRoundTrip ==
    (/\ pc = "invoked" /\ out.snippet = 1 /\ FirstIsDecl
     /\ \A k \in 1..Len(FirstBody) : ~Includes(FirstBody[k], CODE_DELIMITER)) =>
        /\ out.status = "returned"
        /\ BlockRefs(out.result) = <<>>
        /\ ConcatText(out.result) = JoinLines(FirstBody)
        /\ out.blockResults = <<>>

----------------------------------------------------------------------------
(* C4 *)

\* The statement as claimed: in either mode, a head of the stream that
\* starts with the closing keyword ends parseSnippet: the line is consumed,
\* nothing is emitted for it, the later lines stay in the stream; and no other
\* line ends it.
C4_EndsAtClosingKeywordInAnyMode ==
    [][ (pc = "body" /\ lines # <<>>) =>
          IF StartsWith(Head(lines), KwEndSnippet)
          THEN /\ pc' = "top"
               /\ lines' = Tail(lines)
               /\ snippetInfos' = Append(snippetInfos, snippetInfos'[Len(snippetInfos')])
               /\ snippetInfos'[Len(snippetInfos')].body = ScriptEpilogue(snip.script)
          ELSE pc' = "body" ]_vars

\* C4 (amended): parseSnippet ends at the first head of the stream (a line,
\* or the rest of a line pushed back after a delimiter) that starts with the
\* closing keyword while the scanner is in TEXT mode: that line is consumed,
\* nothing is emitted for it and the later lines stay in the stream.  In
\* SCRIPT mode such a line is emitted as script source and the scan goes on.
C4_EndsAtClosingKeywordInTextMode ==
    [][ (pc = "body" /\ lines # <<>>) =>
          IF ~snip.isCode /\ StartsWith(Head(lines), KwEndSnippet)
          THEN /\ pc' = "top"
               /\ lines' = Tail(lines)
               /\ snippetInfos' = Append(snippetInfos, snippetInfos'[Len(snippetInfos')])
               /\ snippetInfos'[Len(snippetInfos')].body = ScriptEpilogue(snip.script)
          ELSE /\ pc' = "body"
               /\ StartsWith(Head(lines), KwEndSnippet) =>
                    /\ Len(snip'.script) > Len(snip.script)
                    /\ snip'.script[Len(snip.script) + 1] =
                          Stmt("code", Trim(SplitFirst(Head(lines)))) ]_vars

\* Both cases happened in one file: the first snippet's script block holds
\* the closing keyword as a script line, and a later closing keyword, met in
\* text mode, ended it with lines left over.
C4_Witness ==
    /\ pc = "top" /\ Len(snippetInfos) = 1 /\ lines # <<>>
    /\ Stmt("code", KwEndSnippet) \in Stmts(snippetInfos[1].body)
    /\ Stmt("push blockResult", <<>>) \in Stmts(snippetInfos[1].body)

----------------------------------------------------------------------------
(* C5 *)

\* The positions of the backticks of a line; the line holds one run of
\* backticks, exactly three long
Backticks(line) == {j \in 1..Len(line) : line[j] = BT}
OnlyTripleRun(line) ==
    /\ Cardinality(Backticks(line)) = 3
    /\ Max(Backticks(line)) - Min(Backticks(line)) = 2

\* A body line of the input with such a run is at the head of the stream
AtTripleRunLine ==
    /\ pc = "body" /\ lines # <<>>
    /\ OnlyTripleRun(Head(lines))
    /\ ~StartsWith(Head(lines), KwEndSnippet)
    /\ HeadIsSourceLine

\* The statement as claimed: a body line whose only run of backticks is three
\* long switches no mode and is emitted whole, as literal text in TEXT mode
\* and as script source in SCRIPT mode.
C5_TripleBacktickIsLiteral ==
    [][ AtTripleRunLine =>
            /\ snip'.isCode = snip.isCode
            /\ lines' = Tail(lines)
            /\ snip'.script = snip.script \o
                  (IF snip.isCode
                   THEN << Stmt("code", Trim(Head(lines))) >>
                   ELSE << Stmt("push text", escapeString(Head(lines))),
                           Stmt("push newline", <<>>) >>) ]_vars

\* C5 (amended): three backticks in a row are no escape.  The delimiter
\* matches the last two backticks of the run: on a body line whose only run
\* of backticks is three long parseSnippet switches mode, emits the text up
\* to and including the first backtick of the run (as literal text in TEXT
\* mode; as script source, followed by the block's two appends, in SCRIPT
\* mode) and pushes the text after the run back onto the stream.
C5_TripleBacktickSplitsAfterFirst ==
    [][ AtTripleRunLine =>
          LET first == Min(Backticks(Head(lines)))
              upTo == SubSeq(Head(lines), 1, first)
              after == SubSeq(Head(lines), first + 3, Len(Head(lines)))
          IN  /\ snip'.isCode = ~snip.isCode
              /\ lines' = <<after>> \o Tail(lines)
              /\ snip'.script = snip.script \o
                    (IF snip.isCode
                     THEN << Stmt("code", Trim(upTo)),
                             Stmt("push block", <<>>),
                             Stmt("push blockResult", <<>>) >>
                     ELSE << Stmt("push text", escapeString(upTo)),
                             Stmt("reset rv", <<>>) >>) ]_vars

\* A body line "a", three backticks, "a" was read in TEXT mode: the scanner
\* is in SCRIPT mode, the text "a" and one backtick is emitted, and "a" is
\* back on the stream.
C5_Witness ==
    /\ pc = "body" /\ snip.isCode
    /\ SourceLines[2] = <<"a", BT, BT, BT, "a">>
    /\ lines # <<>> /\ Head(lines) = <<"a">>
    /\ snip.script = ScriptPrologue \o
          << Stmt("push text", <<"a", BT>>), Stmt("reset rv", <<>>) >>

----------------------------------------------------------------------------
(* C6 *)

\* A declaration line the claim calls malformed: the keyword and a blank,
\* followed by a double quote (a description where the trigger should be) or
\* by a token that starts with a backtick and holds an odd number of them.
Malformed(line) ==
    /\ StartsWith(line, KwSnippet \o <<" ">>)
    /\ Len(line) > Len(KwSnippet) + 1
    /\ LET at == Len(KwSnippet) + 2
       IN  \/ line[at] = "\""
           \/ /\ line[at] = BT
              /\ Cardinality({j \in at..NonSpaceRunEnd(line, at) : line[j] = BT}) % 2 = 1

\* C6: a file with a malformed declaration line at top level makes parse
\* throw and return no snippet.  Violated: HEADER_REGEXP matches every line
\* that starts with the keyword.
C6_MalformedHeaderFails ==
    (Done /\ \E k \in 1..Len(hist) :
                hist[k].kind \in {"snippet", "other"} /\ Malformed(hist[k].line)) =>
        outcome = "threw" /\ result = <<>>

----------------------------------------------------------------------------
(* C9 *)

\* Texts without a backtick, and the expression of the claim
TextPieces == SeqsUpTo({"a"}, MaxBodyTokens)
OnePlusOne == <<"1", "+", "1">>

\* The statement as claimed: for the one-line body T0, delimiter, E,
\* delimiter, T1 the generator returns the segments T0, block 0, T1 and one
\* block result, the stringified value of E ("2" for 1+1).
C9_BlockResultIsValueOfExpression ==
    (pc = "invoked" /\ out.snippet = 1 /\ FirstIsDecl) =>
        LET body == FirstBody
        IN  \A t0 \in TextPieces, t1 \in TextPieces :
                body = << t0 \o CODE_DELIMITER \o OnePlusOne \o CODE_DELIMITER \o t1 >> =>
                    /\ out.status = "returned"
                    /\ out.result = << TextSegment(t0), BlockSegment(0), TextSegment(t1) >>
                    /\ out.blockResults = << NumToString(SumVal(OnePlusOne)) >>

\* C9 (amended): for the one-line body T0, delimiter, script, delimiter, T1
\* the generator returns the segments T0, block 0, T1 and one block result,
\* the stringified value the script left in rv: the empty string when the
\* script is the bare expression E (for 1+1 the block results are [""]), and
\* the stringified value of E when the script is rv=E ("2" for rv=1+1).
C9_BlockResultIsValueOfRv ==
    (pc = "invoked" /\ out.snippet = 1 /\ FirstIsDecl) =>
        LET body == FirstBody
        IN  \A t0 \in TextPieces, t1 \in TextPieces :
                /\ body = << t0 \o CODE_DELIMITER \o OnePlusOne \o CODE_DELIMITER \o t1 >> =>
                    /\ out.status = "returned"
                    /\ out.result = << TextSegment(t0), BlockSegment(0), TextSegment(t1) >>
                    /\ out.blockResults = << <<>> >>
                /\ body = << t0 \o CODE_DELIMITER \o <<" ">> \o KwRvAssign \o OnePlusOne
                                \o <<" ">> \o CODE_DELIMITER \o t1 >> =>
                    /\ out.status = "returned"
                    /\ out.result = << TextSegment(t0), BlockSegment(0), TextSegment(t1) >>
                    /\ out.blockResults = << <<"2">> >>

\* The generator of the body "a", delimiter, 1+1, delimiter, "a" was called
\* and returned one block result, the empty string.
C9_Witness ==
    /\ pc = "invoked" /\ out.snippet = 1 /\ FirstIsDecl
    /\ FirstBody = << <<"a">> \o CODE_DELIMITER \o OnePlusOne \o CODE_DELIMITER \o <<"a">> >>
    /\ out.status = "returned"
    /\ out.blockResults = << <<>> >>

----------------------------------------------------------------------------
(* C10 *)

\* The header line written from its groups; <<>> omits a group.
HeaderLineOf(lit, desc, flags) ==
    KwSnippet
    \o (IF lit = <<>> THEN <<>> ELSE <<" ">> \o lit)
    \o (IF desc = <<>> THEN <<>> ELSE <<" ", "\"">> \o desc \o <<"\"">>)
    \o (IF flags = <<>> THEN <<>> ELSE <<" ">> \o flags)

\* C10: a header line written from a literal, a description and flags is
\* parsed back into that literal, that description and those flags, and an
\* omitted group leaves the others in their own fields and takes its default.
\* (A line of the keyword and flags alone is left out: it reads as a literal
\* as well.)  Violated: with the literal omitted, the description is taken
\* as the literal.
C10_HeaderGroupsParsedBack ==
    \A n \in 1..Len(snippetInfos) :
        \A lit \in {<<>>, <<"a">>},
           desc \in {<<>>, <<"d">>, <<"d", " ", "e">>},
           flags \in SeqsUpTo(FlagChars, MaxFlags) :
            (/\ hist[DeclRead(n)].line = HeaderLineOf(lit, desc, flags)
             /\ ~(lit = <<>> /\ desc = <<>> /\ flags # <<>>)) =>
                /\ snippetInfos[n].header.trigger = [kind |-> "literal", source |-> lit]
                /\ snippetInfos[n].header.description = desc
                /\ snippetInfos[n].header.flags = flags

----------------------------------------------------------------------------
(* C11 *)

\* The pattern a declaration line states: the text between a backtick right
\* after the keyword and a blank, and the next backtick (<<>>: no pattern)
PatternOf(line) ==
    LET open == Len(KwSnippet) + 2
        close == IndexFrom(line, BT, open + 1)
    IN  IF StartsWith(line, KwSnippet \o <<" ", BT>>) /\ close > open + 1
        THEN SubSeq(line, open + 1, close - 1)
        ELSE <<>>

\* A pattern ends with the line-end anchor: its last character is a dollar
\* sign that no backslash escapes (an even number of backslashes precede it).
EndsWithAnchor(pattern) ==
    /\ pattern # <<>>
    /\ pattern[Len(pattern)] = "$"
    /\ LET before == Len(pattern) - 1
           others == {i \in 1..before : pattern[i] # "\\"}
       IN  (before - (IF others = {} THEN 0 ELSE Max(others))) % 2 = 0

\* C11: the source of the pattern compiled from a backtick-delimited trigger
\* ends with the line-end anchor exactly once: it is the pattern itself when
\* the pattern ends with the anchor, and the pattern with the anchor appended
\* when it does not.  Violated: a pattern that ends with an escaped dollar
\* sign, which is a literal and no anchor, is left without the anchor.
C11_AnchoredExactlyOnce ==
    \A n \in 1..Len(snippetInfos) :
        LET pattern == PatternOf(hist[DeclRead(n)].line)
        IN  pattern # <<>> =>
              /\ snippetInfos[n].header.trigger.kind = "regexp"
              /\ EndsWithAnchor(snippetInfos[n].header.trigger.source)
              /\ snippetInfos[n].header.trigger.source =
                    IF EndsWithAnchor(pattern) THEN pattern ELSE pattern \o <<"$">>

----------------------------------------------------------------------------
(* C12 *)

\* What escaping makes of one character: a backslash is doubled, a double
\* quote gets a backslash, any other character stays.
EscapedChar(c) ==
    IF c = "\\" THEN <<"\\", "\\">> ELSE IF c = "\"" THEN <<"\\", "\"">> ELSE <<c>>

\* C12: escaping round trip: for a body of one text line made of letters,
\* backslashes and double quotes, the literal emitted for the line is the
\* line with every backslash doubled and every double quote escaped (not the
\* backslash of an escaped quote doubled again), it is a well-formed string
\* literal, and the generator returns the line itself as its text.
C12_EscapeRoundTrip ==
    (pc = "invoked" /\ out.snippet = 1 /\ FirstIsDecl) =>
        LET body == FirstBody
        IN  (Len(body) = 1 /\ \A i \in 1..Len(body[1]) : body[1][i] \in EscapeChars) =>
              LET stmts == result[1].generatorFunction
                  lit == stmts[Len(ScriptPrologue) + 1].arg
              IN  /\ stmts[Len(ScriptPrologue) + 1].op = "push text"
                  /\ lit = Flatten([i \in 1..Len(body[1]) |-> EscapedChar(body[1][i])])
                  /\ WellFormedLiteral(lit)
                  /\ StringValue(lit) = body[1]
                  /\ out.status = "returned"
                  /\ out.result = << TextSegment(body[1]) >>

\* The generator of the body line backslash, double quote was called and
\* returned those two characters.
C12_Witness ==
    /\ pc = "invoked" /\ out.snippet = 1 /\ FirstIsDecl
    /\ FirstBody = << <<"\\", "\"">> >>
    /\ out.result = << TextSegment(<<"\\", "\"">>) >>

----------------------------------------------------------------------------
(* C14 *)

\* The directives of one kind read right before the i-th declaration: nothing
\* but directives was read between them and the declaration
ImmediateReads(i, kind) ==
    {k \in PendingReads(i, kind) :
        \A j \in (k + 1)..(DeclRead(i) - 1) : hist[j].kind \in {"priority", "context"}}

\* The directives of one kind read since the last declaration
OpenReads(kind) ==
    {k \in ((IF DeclReads = {} THEN 0 ELSE Max(DeclReads)) + 1)..Len(hist) : hist[k].kind = kind}

\* The statement as claimed: a directive is cleared whether or not a
\* declaration follows: a snippet has the priority and the context of the
\* directives read right before its declaration, and the defaults when another
\* top-level line came between.
C14_ClearedWithoutDeclaration ==
    \A i \in 1..Len(snippetInfos) :
        /\ snippetInfos[i].header.priority =
              IF ImmediateReads(i, "priority") = {} THEN 0
              ELSE StatedPriority(hist[Max(ImmediateReads(i, "priority"))].line)
        /\ snippetInfos[i].contextFilter =
              IF ImmediateReads(i, "context") = {} THEN <<>>
              ELSE ContextOf(hist[Max(ImmediateReads(i, "context"))].line)

\* C14 (amended): a priority or context directive stays pending, across
\* comments, global blocks and other top-level lines, until the next snippet
\* declaration: that snippet takes the value of the last directive of each
\* kind read since the declaration before it (0 and none when there was no
\* such directive), and the declaration resets both pending values, so no
\* directive reaches a second snippet.  Nothing else clears them.
C14_PendingUntilConsumed ==
    /\ \A i \in 1..Len(snippetInfos) :
          /\ snippetInfos[i].header.priority = DuePriority(i)
          /\ snippetInfos[i].contextFilter = DueContext(i)
    /\ pc = "top" =>
          /\ priority = IF OpenReads("priority") = {} THEN 0
                        ELSE StatedPriority(hist[Max(OpenReads("priority"))].line)
          /\ context = IF OpenReads("context") = {} THEN <<>>
                       ELSE ContextOf(hist[Max(OpenReads("context"))].line)

\* A priority directive, another top-level line and then a declaration: the
\* snippet has the priority; a second snippet after it has priority 0.
C14_Witness ==
    /\ Done /\ outcome = "returned" /\ Len(result) = 2
    /\ ImmediateReads(1, "priority") = {} /\ PendingReads(1, "priority") # {}
    /\ result[1].header.priority = 5
    /\ result[2].header.priority = 0

----------------------------------------------------------------------------
(* C15 *)

\* C15: when parseSnippet returns, the generator's source is the statements
\* emitted so far, without the last one if and only if that is the line-break
\* append of a text line, followed by the return statement and the closing
\* brace.  Violated: the last statement is dropped whatever it is.
C15_DropsOnlyTrailingNewline ==
    [][ (pc = "body" /\ pc' = "top") =>
          LET emitted == snip.script
              kept == IF emitted[Len(emitted)].op = "push newline"
                      THEN SubSeq(emitted, 1, Len(emitted) - 1)
                      ELSE emitted
          IN  snippetInfos'[Len(snippetInfos')].body =
                  kept \o << Stmt("return", <<>>), Stmt("}", <<>>) >> ]_vars

----------------------------------------------------------------------------
(* C16 *)

\* A line that would be a directive or a declaration at top level
LooksLikeDirective(line) ==
    \/ StartsWith(line, KwComment)
    \/ StartsWith(line, KwPriority)
    \/ StartsWith(line, KwContext)
    \/ StartsWith(line, KwGlobal)
    \/ StartsWith(line, KwSnippet)

\* The lines of a file that stand inside its global blocks, in order, read off
\* the file: a block runs from a top-level line that starts with the block
\* keyword to the next line that starts with its closing keyword; a snippet
\* runs from its declaration to the next line that starts with its closing
\* keyword.
RECURSIVE GlobalBlockLines(_, _)
GlobalBlockLines(ls, mode) ==
    IF ls = <<>> THEN <<>>
    ELSE IF mode = "global" THEN
        IF StartsWith(Head(ls), KwEndGlobal) THEN GlobalBlockLines(Tail(ls), "top")
        ELSE <<Head(ls)>> \o GlobalBlockLines(Tail(ls), "global")
    ELSE IF mode = "body" THEN
        GlobalBlockLines(Tail(ls), IF StartsWith(Head(ls), KwEndSnippet) THEN "top" ELSE "body")
    ELSE IF StartsWith(Head(ls), KwComment) THEN GlobalBlockLines(Tail(ls), "top")
    ELSE IF StartsWith(Head(ls), KwGlobal) THEN GlobalBlockLines(Tail(ls), "global")
    ELSE IF StartsWith(Head(ls), KwSnippet) THEN GlobalBlockLines(Tail(ls), "body")
    ELSE GlobalBlockLines(Tail(ls), "top")

\* C16: directives are recognised at top level only: inside a global block
\* (before its closing line) and inside a snippet body, a line that starts
\* like a comment, a priority or context directive, a global block or a
\* declaration changes neither the pending priority, nor the pending
\* context, nor the list of snippets; no step of a body changes the preamble;
\* and when parse ends the preamble is the lines inside the file's global
\* blocks, in file order.
C16_DirectivesOnlyAtTopLevel ==
    /\ [][ (/\ lines # <<>>
            /\ LooksLikeDirective(Head(lines))
            /\ \/ pc = "top" /\ isCode
               \/ pc = "body" /\ HeadIsSourceLine) =>
              /\ priority' = priority
              /\ context' = context
              /\ snippetInfos' = snippetInfos ]_vars
    /\ [][ pc = "body" => script' = script ]_vars
    /\ [](Done => script = GlobalBlockLines(SourceLines, "top"))

\* parse ended on a file whose global block and whose body both hold a
\* priority directive and a declaration: the preamble is those two lines, the
\* one snippet is the outer one, with the priority stated at top level.
C16_Witness ==
    /\ Done
    /\ script = <<LinePriority7, LineSnippetB>>
    /\ Len(snippetInfos) = 1
    /\ snippetInfos[1].header.trigger.source = <<"a">>
    /\ snippetInfos[1].header.priority = 5
    /\ Stmt("push text", LinePriority7) \in Stmts(snippetInfos[1].body)
    /\ Stmt("push text", LineSnippetB) \in Stmts(snippetInfos[1].body)

----------------------------------------------------------------------------
(* C17 *)

\* One-line bodies made of letters, blocks that assign 1+1 to rv and blocks
\* that hold the bare expression 1+1, with a letter between two blocks (the
\* delimiters of adjacent blocks would form one run of backticks); and the
\* block results such a body is due: for each block in order, "2" when it
\* assigns rv, the empty string when it does not.
BlockPieces ==
    { pieces \in SeqsUpTo({Str_a, BlockAssign, BlockExpression}, MaxBodyTokens) :
        \A j \in 1..(Len(pieces) - 1) : pieces[j] = Str_a \/ pieces[j + 1] = Str_a }
DueBlockResults(pieces) ==
    LET blocks == SelectSeq(pieces, LAMBDA piece : piece # Str_a)
    IN  [j \in 1..Len(blocks) |-> IF blocks[j] = BlockAssign THEN <<"2">> ELSE <<>>]

\* C17: every script block starts with rv reset to the empty string: the
\* result recorded for a block is the string of the value its own script
\* assigned to rv, and the empty string when its script assigns nothing;
\* never the value an earlier block of the same body left in rv.
C17_BlockStartsWithEmptyRv ==
    (pc = "invoked" /\ out.snippet = 1 /\ FirstIsDecl) =>
        LET body == FirstBody
        IN  \A pieces \in BlockPieces :
                body = << Flatten(pieces) >> =>
                    /\ out.status = "returned"
                    /\ out.blockResults = DueBlockResults(pieces)

\* The generator of a body with a block that assigns rv followed by a block
\* that does not was called: the results are "2" and the empty string.
C17_Witness ==
    /\ pc = "invoked" /\ out.snippet = 1 /\ FirstIsDecl
    /\ FirstBody = << BlockAssign \o Str_a \o BlockExpression >>
    /\ out.status = "returned"
    /\ out.blockResults = << <<"2">>, <<>> >>

----------------------------------------------------------------------------
(* C19 *)

\* The total length of the line stream: its characters, and one for each line
RECURSIVE StreamSize(_)
StreamSize(stream) ==
    IF stream = <<>> THEN 0 ELSE Len(Head(stream)) + 1 + StreamSize(Tail(stream))

\* Every iteration of the two loops either removes the head of the stream or
\* replaces it by a strictly shorter rest, so that the total length of the
\* stream strictly decreases.
StreamShrinks ==
    (pc \in {"top", "body"} /\ lines # <<>>) =>
        /\ StreamSize(lines') < StreamSize(lines)
        /\ \/ lines' = Tail(lines)
           \/ /\ lines' # <<>>
              /\ Tail(lines') = Tail(lines)
              /\ Len(Head(lines')) < Len(Head(lines))

\* The statement as claimed: the stream shrinks at every iteration, and parse
\* ends (it returns or throws) on every input.
C19_Terminates ==
    /\ [][StreamShrinks]_vars
    /\ <>Done

\* C19 (amended): the loops of parseSnippet and parse terminate on every
\* input: the stream shrinks at every iteration, and the scan ends.  parse
\* then executes the unit it assembled, the preamble of the file included,
\* and ends if and only if that execution ends: it never returns on a file
\* whose preamble runs into an endless loop, and it returns or throws on
\* every other file.
C19_ScanTerminates ==
    /\ [][StreamShrinks]_vars
    /\ <>(pc \notin {"top", "body"})
    /\ [](pc = "executing" =>
            /\ lines = <<>>
            /\ \E i \in 1..Len(script) : Trim(script[i]) = KwForever)
    /\ ((\A i \in 1..Len(SourceLines) : Trim(SourceLines[i]) # KwForever) ~> Done)

\* parse ended on a file in whose body a block was opened and closed: rests
\* of a line were pushed back twice, and the stream is empty.
C19_Witness ==
    /\ Done /\ lines = <<>>
    /\ Len(snippetInfos) = 2
    /\ Stmt("push block", <<>>) \in Stmts(snippetInfos[1].body)

----------------------------------------------------------------------------
(* C13: the scope of the preamble *)

\* The preamble of a text, read off the text
PreambleOf(text) ==
    LET ls == GlobalBlockLines(SplitLines(text), "top")
    IN  [i \in 1..Len(ls) |-> Trim(ls[i])]

\* The text declares a binding twice in its global blocks
DeclaresTwice(text) ==
    LET pre == PreambleOf(text)
    IN  \E i, j \in 1..Len(pre) : i < j /\ pre[i] = pre[j] /\ StartsWith(pre[i], KwLet)

\* The text reads, in its global blocks, a name it does not declare
ReadsUndeclared(text) ==
    LET pre == PreambleOf(text)
    IN  \E i \in 1..Len(pre) :
            /\ IsIdentifier(pre[i])
            /\ pre[i] \notin UnitNames
            /\ \A j \in 1..Len(pre) : pre[j] # KwLet \o pre[i]

\* C13: the scope of the preamble is per compilation: of the parse calls a
\* load has finished, every call on a text that declares a binding twice in
\* its global blocks threw the redeclaration error and returned no snippets;
\* every call on another text ended as that text alone decides (it returned
\* unless the text reads a name it does not declare), whatever was compiled
\* before it: no binding is carried from one call to the next.  (Violated:
\* an assignment to an undeclared name in one file's global block leaves the
\* name on the global object, and a later call on a text that reads the name
\* returns.)
C13_ScopePerCompilation ==
    \A i \in 1..Len(parsed) :
        LET c == parsed[i]
        IN  IF DeclaresTwice(c.content)
            THEN c.outcome = "threw" /\ c.error = "redeclared" /\ c.result = <<>>
            ELSE (c.outcome = "returned") <=> ~ReadsUndeclared(c.content)

\* The part of C13 about declarations: a text that declares a binding twice
\* fails, and a text that declares it once and reads nothing undeclared
\* compiles, in whatever order and however often the files are compiled.
C13_DeclarationsPerCompilation ==
    \A i \in 1..Len(parsed) :
        LET c == parsed[i]
        IN  /\ DeclaresTwice(c.content)
                => c.outcome = "threw" /\ c.error = "redeclared" /\ c.result = <<>>
            /\ ~DeclaresTwice(c.content) /\ ~ReadsUndeclared(c.content)
                => c.outcome = "returned"

\* The same declaration was compiled from two files in one load, and the
\* files are compiled for the second time.
C13_Witness ==
    /\ loads = 2
    /\ \E i, j \in 1..Len(parsed) :
        /\ i < j
        /\ parsed[i].content = TextDeclares /\ parsed[j].content = TextDeclares
        /\ parsed[j].file = FileLower

----------------------------------------------------------------------------
(* C18: a failing file and the other files *)

Range(seq) == {seq[i] : i \in 1..Len(seq)}

\* The calls of the last load that returned, and those that threw
ReturnedCalls == {i \in 1..Len(parsed) : parsed[i].outcome = "returned"}
ThrownCalls == {i \in 1..Len(parsed) : parsed[i].outcome = "threw"}

\* The snippets of the last file of a language that compiled (none when no
\* file of the language did)
LastCompiled(language) ==
    LET of == {i \in ReturnedCalls : LanguageOf(parsed[i].file) = language}
    IN  IF of = {} THEN {} ELSE Range(parsed[Max(of)].result)

\* What C18 says of every file: after a load, each snippet file of the
\* directory was compiled; each file that compiled has an entry, under its
\* language; each file that failed has none, and was notified; and every
\* entry comes from a file this load compiled.  (Violated: two files whose
\* names differ only in case share a language, and the entry of the one that
\* compiled stands under the language of the one that failed.)
C18_EntryPerFile ==
    loadpc = "loaded" =>
        /\ {parsed[i].file : i \in 1..Len(parsed)} = {n \in DOMAIN dir : IsHsnipFile(n)}
        /\ \A i \in ReturnedCalls : LanguageOf(parsed[i].file) \in DOMAIN SNIPPETS_BY_LANGUAGE
        /\ \A i \in ThrownCalls : LanguageOf(parsed[i].file) \notin DOMAIN SNIPPETS_BY_LANGUAGE
        /\ notifications = {parsed[i].file : i \in ThrownCalls}
        /\ DOMAIN SNIPPETS_BY_LANGUAGE \subseteq
               {LanguageOf(parsed[i].file) : i \in ReturnedCalls}

\* C18: the failure of one file does not stop the loading of the others, and
\* nothing of an earlier load remains: after a load, each snippet file of the
\* directory was compiled once; the languages that have an entry are those
\* of the files that compiled; an entry holds the snippets of the last file
\* of its language that compiled (and, but for 'all', those of 'all') and
\* nothing else; and the files notified are those that failed.
C18_FailureIsolated ==
    loadpc = "loaded" =>
        /\ {parsed[i].file : i \in 1..Len(parsed)} = {n \in DOMAIN dir : IsHsnipFile(n)}
        /\ Len(parsed) = Cardinality({n \in DOMAIN dir : IsHsnipFile(n)})
        /\ DOMAIN SNIPPETS_BY_LANGUAGE = {LanguageOf(parsed[i].file) : i \in ReturnedCalls}
        /\ \A l \in DOMAIN SNIPPETS_BY_LANGUAGE :
               Range(SNIPPETS_BY_LANGUAGE[l]) =
                   LastCompiled(l) \cup (IF l # KwAll THEN LastCompiled(KwAll) ELSE {})
        /\ notifications = {parsed[i].file : i \in ThrownCalls}

\* In the second load a file failed, a file after it compiled, and the
\* directory holds no file of all languages any more.
C18_Witness ==
    /\ loadpc = "loaded" /\ loads = 2
    /\ \E i \in ThrownCalls, j \in ReturnedCalls : i < j
    /\ FileAll \notin DOMAIN dir
    /\ SNIPPETS_BY_LANGUAGE # EmptyMap

----------------------------------------------------------------------------
(* C20: the flag insertingSnippet *)

\* C20: while a call of expandSnippet is in progress (from before its delete
\* edit until its insertion is over) insertingSnippet is true, also when two
\* calls overlap; and when every call has ended, its edits done or rejected,
\* insertingSnippet is false again.  (Violated: of two overlapping calls the
\* first to finish clears the flag under the other; and a call that ends
\* with a rejection never clears it.)
C20_FlagCoversExpansions ==
    /\ InProgress # {} => insertingSnippet
    /\ InProgress = {} => ~insertingSnippet

\* The first half alone, for lack of overlap: while exactly one call has
\* ever been started and is in progress, the flag is set.
C20_FlagCoversSingleCall ==
    (Len(expansions) = 1 /\ InProgress # {}) => insertingSnippet

\* C20, of the listener: it starts no automatic expansion while a call is in
\* progress.  (Violated, after the flag was cleared under a call.)
C20_NoExpansionInside ==
    [][(Len(expansions') > Len(expansions) /\ expansions'[Len(expansions')].by = "automatic")
          => InProgress = {}]_vars

----------------------------------------------------------------------------
(* C21: the order of the lists *)

\* The snippets of the last file of a language that compiled, in file order
LastResult(language) ==
    LET of == {i \in ReturnedCalls : LanguageOf(parsed[i].file) = language}
    IN  IF of = {} THEN <<>> ELSE parsed[Max(of)].result

\* The order a language's snippets were loaded in: those of its own file,
\* then, but for 'all', those of 'all'
LoadOrder(language) ==
    LastResult(language) \o (IF language # KwAll THEN LastResult(KwAll) ELSE <<>>)

\* list holds the elements of order, each once, and two elements of equal
\* priority stand in list as they stand in order
KeepsLoadOrder(list, order) ==
    /\ Len(list) = Len(order)
    /\ \E p \in Orders(1..Len(order)) :
        /\ \A k \in 1..Len(list) : list[k] = order[p[k]]
        /\ \A j, k \in 1..Len(list) :
               (j < k /\ list[j].header.priority = list[k].header.priority) => p[j] < p[k]

\* C21: after every load that ran to its end, each language's list is in
\* non-increasing priority order, snippets of equal priority stand in their
\* load order, and every list but that of 'all' holds every snippet compiled
\* from the file of 'all'.
C21_SortedStableMerged ==
    loadpc = "loaded" =>
        \A l \in DOMAIN SNIPPETS_BY_LANGUAGE :
            LET list == SNIPPETS_BY_LANGUAGE[l]
            IN  /\ \A j, k \in 1..Len(list) :
                       j < k => list[j].header.priority >= list[k].header.priority
                /\ KeepsLoadOrder(list, LoadOrder(l))
                /\ l # KwAll => Range(LastResult(KwAll)) \subseteq Range(list)

\* A load ended with a list of four snippets, two of its own file and two
\* of 'all', a pair of each priority, which the sort had to reorder.
C21_Witness ==
    /\ loadpc = "loaded"
    /\ \E l \in DOMAIN SNIPPETS_BY_LANGUAGE \ {KwAll} :
        /\ Len(LastResult(l)) = 2 /\ Len(LastResult(KwAll)) = 2
        /\ SNIPPETS_BY_LANGUAGE[l] # LoadOrder(l)
        /\ SNIPPETS_BY_LANGUAGE[l][1].header.priority = SNIPPETS_BY_LANGUAGE[l][2].header.priority
        /\ SNIPPETS_BY_LANGUAGE[l][3].header.priority = SNIPPETS_BY_LANGUAGE[l][4].header.priority
        /\ SNIPPETS_BY_LANGUAGE[l][2].header.priority > SNIPPETS_BY_LANGUAGE[l][3].header.priority
        /\ Cardinality(Range(SNIPPETS_BY_LANGUAGE[l])) = 4

----------------------------------------------------------------------------
(* C22: the retry chain *)

\* The events whose chain a step adds an attempt to
Attempted == {e \in 1..Len(attempts') : e > Len(attempts) \/ attempts'[e] # attempts[e]}

\* Of the attempt a step adds to the chain of e: how it went, and its
\* retryCount
AttemptEnv(e) == attempts'[e][Len(attempts'[e])]
AttemptRetryCount(e) == Len(attempts'[e]) - 1

\* What a step that makes an attempt does with its failure: an attempt that
\* is not ready, before the last, arms the timer of the next attempt of the
\* same chain and notifies nothing; any other failure, and the failure of the
\* last attempt, is notified and arms no timer.
FailureHandled ==
    \A e \in Attempted :
        /\ (AttemptEnv(e) = "not ready" /\ AttemptRetryCount(e) < 3) =>
               /\ \E t \in timers' \ timers :
                      t.event = e /\ t.retryCount = AttemptRetryCount(e) + 1
               /\ notifications' = {}
        /\ (AttemptEnv(e) = "throws"
               \/ (AttemptEnv(e) = "not ready" /\ AttemptRetryCount(e) >= 3)) =>
               /\ timers' \subseteq timers
               /\ GeneralFailure \in notifications'

\* C22: the retry chain is bounded: one triggering event causes at most 4
\* attempts, each but the first a retry of an attempt that failed because a
\* dependency was not ready; at most one retry timer is pending at any time,
\* also when events call loadSnippets while a retry is pending; a failure
\* that is not ready, before the last attempt, arms the retry; any other
\* failure, and the failure of the last attempt, is notified and arms none.
C22_RetryChainBounded ==
    /\ [](\A e \in 1..Len(attempts) :
             /\ Len(attempts[e]) <= 4
             /\ \A k \in 1..(Len(attempts[e]) - 1) : attempts[e][k] = "not ready")
    /\ [](Cardinality(timers) <= 1)
    /\ [][FailureHandled]_vars

\* The first event's attempt was not ready, the second event came while its
\* retry was pending and was not ready four times; the last failure was
\* notified and no timer is pending.
C22_Witness ==
    /\ Len(attempts) = 2
    /\ attempts[1] = <<"not ready">>
    /\ attempts[2] = <<"not ready", "not ready", "not ready", "not ready">>
    /\ timers = {}
    /\ GeneralFailure \in notifications

====
